---- MODULE Spec2Model ----
(***************************************************************************)
(* Model of pptx_heavy_slides.py: the per-slide media accounting          *)
(* (analyze_pptx_media), the image optimisation heuristics                *)
(* (get_image_dimensions, analyze_image_optimization) and the deck-wide   *)
(* optimisation scan (analyze_optimization_opportunities), the input       *)
(* validation of the entry points, and the audit and clean-up of slide     *)
(* layouts (analyze_slide_masters, delete_unused_layouts), format_bytes,   *)
(* print_console_output and the command line entry point main.             *)
(*                                                                         *)
(* A deck is a sequence of slides, a slide a sequence of shapes.  Each     *)
(* engine is a little program counter machine that walks the deck the way  *)
(* the code's loops do.  Eight specifications share the module:            *)
(*   Spec     analyze_pptx_media on a bounded deck, either policy          *)
(*   SpecImg  get_image_dimensions + analyze_image_optimization on one     *)
(*            image and one picture shape                                  *)
(*   SpecOpt  analyze_optimization_opportunities on a bounded deck         *)
(*   SpecFile analyze_pptx_media called with a path: validation of the     *)
(*            path and the file, then the scan of the package              *)
(*   SpecMasters  analyze_slide_masters and delete_unused_layouts called   *)
(*            with a path, on bounded packages of masters and layouts,     *)
(*            and later runs on the copy a clean-up saved                  *)
(*   SpecRegistry  the discovery passes of both scans on decks that mix    *)
(*            readable and unreadable shapes                               *)
(*   SpecFormat  format_bytes on byte counts around the unit boundaries    *)
(*   SpecMain  main on every combination of its options, with the engines  *)
(*            and the JSON and CSV writers it calls                        *)
(* Comparisons and truncations the code does in binary floating point are  *)
(* modelled in integers (cross multiplication, floor of the exact          *)
(* quotient); where binary64 rounding changes a result on the inputs of    *)
(* the model the difference is tabulated (FloatProductFallsShort).         *)
(* slide_title, savings_percent, master_name, the log output, the text of  *)
(* the printed reports beyond their rows, and the contents of the JSON and *)
(* CSV files are not modelled.                                             *)
(***************************************************************************)
EXTENDS Integers, Sequences, FiniteSets, TLC

VARIABLES
    \* ---- analyze_pptx_media
    deck,                  \* prs.slides: Seq of slides, a slide = Seq of shapes
    include_shared_media,  \* the policy argument
    pc,                    \* "idle" | "discover" | "aborted" | "done"
    slide_idx,             \* loop variable of the first pass (1-based)
    shape_idx,             \* position inside slide.shapes (discovery pass)
    media_registry,        \* media_key -> [size, type, content_type, filename, slides, first_slide]
    slide_media_map,       \* slide_idx -> Seq of media references
    results                \* list of SlideMediaStats

vars_media == <<deck, include_shared_media, pc, slide_idx, shape_idx,
                media_registry, slide_media_map, results>>

VARIABLES
    \* ---- get_image_dimensions / analyze_image_optimization on one image
    image,                 \* the decoded blob: [format, content_type, current_bytes, pixel_width, pixel_height]
    shape,                 \* the picture shape: [width, height] in EMU
    img_pc,                \* "start" | "measured" | "analyzed"
    dimensions,            \* ImageDimensions
    opportunities          \* list of OptimizationOpportunity

vars_img == <<image, shape, img_pc, dimensions, opportunities>>

VARIABLES
    \* ---- analyze_optimization_opportunities
    opt_deck,              \* prs.slides
    opt_pc,                \* "collect" | "done"
    opt_slide,             \* loop variable of the first pass
    opt_shape,             \* position inside slide.shapes (first pass)
    opt_registry,          \* media_key -> [blob, content_type, slides, first_slide]
    slide_shapes_map,      \* slide_idx -> Seq of <<shape, media_key>>
    all_opportunities,     \* the list that is returned
    analysis_log           \* history: one entry per call of analyze_image_optimization

vars_opt == <<opt_deck, opt_pc, opt_slide, opt_shape, opt_registry,
              slide_shapes_map, all_opportunities, analysis_log>>

VARIABLES
    \* ---- the file system and the functions called with a path
    fs,                    \* path -> what the file holds: absent, unparseable bytes, or a package
    path,                  \* the path argument: [dir, name], name a sequence of characters
    op,                    \* the function called: "media" | "masters" | "delete"
    pkg_pc,                \* "call" | "opened" | "returned" | "raised"
    raised,                \* the exception that left the function, "none" if none
    io_log,                \* the file operations performed so far: <<operation, path>>
    masters_report,        \* what analyze_slide_masters returned
    delete_result          \* what delete_unused_layouts returned

vars_pkg == <<fs, path, op, pkg_pc, raised, io_log, masters_report, delete_result>>

VARIABLES
    \* ---- main, print_console_output and format_bytes
    argv,                  \* the parsed command line
    main_pc,               \* "idle" | "start" | "engine" | "json" | "csv" | "return" |
                           \* "except" | "exit"
    out,                   \* what the run has emitted so far, in order: records
                           \* [stream, block, text, rows] for a block on stdout, the
                           \* message on stderr, or a file written (text = its path)
    exit_code,             \* the value main returned, -1 while it runs
    num_bytes,             \* the argument of format_bytes
    fmt_pc,                \* "idle" | "call" | "returned"
    formatted              \* the string format_bytes returned

vars_cli == <<argv, main_pc, out, exit_code, num_bytes, fmt_pc, formatted>>

vars == <<vars_media, vars_img, vars_opt, vars_pkg, vars_cli>>

----------------------------------------------------------------------------
(* Bounds of the model *)

MaxSlides == 3     \* slides in a deck
MaxShapes == 3     \* shapes in a whole deck
MaxMasters == 2    \* slide masters in a package
MaxLayouts == 3    \* slide layouts in a whole package

----------------------------------------------------------------------------
(* The package: binary parts a shape can point at.  len(blob), the MIME    *)
(* type and the file name are what the code reads from a part.             *)

ImageBlobs == {"imgA", "imgB"}
MediaParts == {"/ppt/media/media1.mp4", "/ppt/media/media2.mp3", "/ppt/media/media3.bin"}

BlobSize(b) ==
    CASE b = "imgA" -> 1200000
      [] b = "imgB" -> 600
      [] b = "imgC" -> 900
      [] b = "/ppt/media/media1.mp4" -> 5000000
      [] b = "/ppt/media/media2.mp3" -> 600
      [] b = "/ppt/media/media3.bin" -> 70

ContentType(b) ==
    CASE b = "imgA" -> "image/png"
      [] b = "imgB" -> "image/jpeg"
      [] b = "imgC" -> "image/x-emf"
      [] b = "/ppt/media/media1.mp4" -> "video/mp4"
      [] b = "/ppt/media/media2.mp3" -> "audio/mpeg"
      [] b = "/ppt/media/media3.bin" -> "application/octet-stream"

Filename(b) ==
    CASE b = "imgA" -> "image.png"
      [] b = "imgB" -> "image.jpg"
      [] b = "imgC" -> "image.emf"
      [] b = "/ppt/media/media1.mp4" -> "media1.mp4"
      [] b = "/ppt/media/media2.mp3" -> "media2.mp3"
      [] b = "/ppt/media/media3.bin" -> "media3.bin"

\* hash(blob): the registry key of a picture.  Distinct blobs of the package
\* get distinct keys (no collision among the blobs of the model).
Hash(b) == CASE b = "imgA" -> "h:7d1a" [] b = "imgB" -> "h:02c9" [] b = "imgC" -> "h:e410"

\* 'video' in content_type.lower() / 'audio' in content_type.lower()
ContainsVideo(ct) == ct \in {"video/mp4"}
ContainsAudio(ct) == ct \in {"audio/mpeg"}

MediaTypeOf(ct) ==
    IF ContainsVideo(ct) THEN "video"
    ELSE IF ContainsAudio(ct) THEN "audio"
    ELSE "other"

----------------------------------------------------------------------------
(* Shapes and decks of the accounting model.  extract_ok = FALSE is a      *)
(* shape whose shape.image / related_part lookup raises.                   *)

PictureShapes == {[shape_type |-> "PICTURE", part |-> b, extract_ok |-> TRUE] : b \in ImageBlobs}
MediaShapes   == {[shape_type |-> "MEDIA", part |-> p, extract_ok |-> TRUE] : p \in MediaParts}
BrokenShapes  == {[shape_type |-> "PICTURE", part |-> "imgA", extract_ok |-> FALSE]}
PlainShapes   == {[shape_type |-> "TEXT_BOX", part |-> "", extract_ok |-> TRUE]}

Shapes == PictureShapes \cup MediaShapes \cup BrokenShapes \cup PlainShapes

\* shapes for the study of the registry: a picture, a movie, a text box,
\* and a picture and a movie whose extraction raises
RegistryShapes ==
    {[shape_type |-> "PICTURE", part |-> "imgA", extract_ok |-> TRUE],
     [shape_type |-> "TEXT_BOX", part |-> "", extract_ok |-> TRUE],
     [shape_type |-> "MEDIA", part |-> "/ppt/media/media1.mp4", extract_ok |-> TRUE],
     [shape_type |-> "PICTURE", part |-> "imgA", extract_ok |-> FALSE],
     [shape_type |-> "MEDIA", part |-> "/ppt/media/media2.mp3", extract_ok |-> FALSE]}

\* The decks of the model: n slides that hold k shapes in total.  A deck is
\* given by its shapes in document order and the slide each one sits on.
NonDecreasing(at) == \A a \in DOMAIN at : \A b \in DOMAIN at : a <= b => at[a] <= at[b]

DeckFrom(n, flat, at) ==
    [i \in 1..n |->
        LET on == {j \in DOMAIN at : at[j] = i}
            before == Cardinality({j \in DOMAIN at : at[j] < i})
        IN  [m \in 1..Cardinality(on) |-> flat[before + m]]]

\* d is a deck of at most MaxSlides slides and MaxShapes shapes drawn from S
IsDeckOver(d, S) ==
    \E n \in 0..MaxSlides : \E k \in 0..MaxShapes :
        \E flat \in [1..k -> S] : \E at \in [1..k -> 1..n] :
            /\ NonDecreasing(at)
            /\ d = DeckFrom(n, flat, at)

----------------------------------------------------------------------------
(* Helpers *)

\* dict.get(key, []) on slide_media_map / slide_shapes_map
MapGet(m, i) == IF i \in DOMAIN m THEN m[i] ELSE <<>>

\* d[key] = value
MapPut(m, k, v) == [x \in (DOMAIN m) \cup {k} |-> IF x = k THEN v ELSE m[x]]

EmptyMap == [x \in {} |-> 0]

RECURSIVE SeqSum(_)
SeqSum(s) == IF s = <<>> THEN 0 ELSE s[1] + SeqSum(Tail(s))

\* the loop position after (s, j): the next shape of the deck in document
\* order, or slide Len(d) + 1 when the nested for loops are exhausted
RECURSIVE NextPos(_, _, _)
NextPos(d, s, j) ==
    IF s > Len(d) THEN <<s, 1>>
    ELSE IF j + 1 <= Len(d[s]) THEN <<s, j + 1>>
    ELSE NextPos(d, s + 1, 0)

FirstPos(d) == NextPos(d, 1, 0)

----------------------------------------------------------------------------
(* analyze_pptx_media: the media registry *)

\* the record created on the first encounter of a key
NewAsset(size, type, ct, fname, slide) ==
    [size |-> size, type |-> type, content_type |-> ct, filename |-> fname,
     slides |-> <<>>, first_slide |-> slide]

\* variant of Register that records a slide once per asset, however many
\* shapes of the slide refer to it
RegisterOncePerSlide(reg, key, asset, slide) ==
    LET created == IF key \in DOMAIN reg THEN reg ELSE MapPut(reg, key, asset)
        seen == \E p \in 1..Len(created[key].slides) : created[key].slides[p] = slide
    IN  IF seen THEN created ELSE [created EXCEPT ![key].slides = Append(@, slide)]

\* if media_key not in media_registry: create; then slides.append(slide_idx)
Register(reg, key, asset, slide) ==
    LET created == IF key \in DOMAIN reg THEN reg ELSE MapPut(reg, key, asset)
    IN  [created EXCEPT ![key].slides = Append(@, slide)]

\* slide_media_map[slide_idx].append(ref) on a defaultdict(list)
RecordRef(m, slide, ref) == MapPut(m, slide, Append(MapGet(m, slide), ref))

MediaRef(key, type, size, ct, fname) ==
    [media_key |-> key, type |-> type, size_bytes |-> size,
     content_type |-> ct, filename |-> fname]

CurShape == deck[slide_idx][shape_idx]

Advance ==
    LET p == NextPos(deck, slide_idx, shape_idx)
    IN  slide_idx' = p[1] /\ shape_idx' = p[2]

InDiscovery == pc = "discover" /\ slide_idx <= Len(deck)

\* a PICTURE shape whose image is read: keyed by hash(blob)
RegisterPicture ==
    /\ InDiscovery
    /\ CurShape.shape_type = "PICTURE" /\ CurShape.extract_ok
    /\ LET blob == CurShape.part
           key  == Hash(blob)
           reg  == Register(media_registry, key,
                            NewAsset(BlobSize(blob), "image", ContentType(blob),
                                     Filename(blob), slide_idx),
                            slide_idx)
       IN  /\ media_registry' = reg
           /\ slide_media_map' = RecordRef(slide_media_map, slide_idx,
                                    MediaRef(key, "image", BlobSize(blob),
                                             ContentType(blob), reg[key].filename))
    /\ Advance
    /\ UNCHANGED <<deck, include_shared_media, pc, results>>
    /\ UNCHANGED <<vars_img, vars_opt, vars_pkg, vars_cli>>

\* a MEDIA shape whose part is read: keyed by the part name, typed by MIME
RegisterMedia ==
    /\ InDiscovery
    /\ CurShape.shape_type = "MEDIA" /\ CurShape.extract_ok
    /\ LET part == CurShape.part
           type == MediaTypeOf(ContentType(part))
           reg  == Register(media_registry, part,
                            NewAsset(BlobSize(part), type, ContentType(part),
                                     Filename(part), slide_idx),
                            slide_idx)
       IN  /\ media_registry' = reg
           /\ slide_media_map' = RecordRef(slide_media_map, slide_idx,
                                    MediaRef(part, type, BlobSize(part),
                                             ContentType(part), reg[part].filename))
    /\ Advance
    /\ UNCHANGED <<deck, include_shared_media, pc, results>>
    /\ UNCHANGED <<vars_img, vars_opt, vars_pkg, vars_cli>>

\* variant of ExtractionFails in which the exception strikes after the asset
\* was entered in the registry: a record without a reference is left behind
ExtractionFailsAfterRegistering ==
    /\ InDiscovery
    /\ CurShape.shape_type \in {"PICTURE", "MEDIA"} /\ ~CurShape.extract_ok
    /\ media_registry' = Register(media_registry, CurShape.part,
                                  NewAsset(BlobSize(CurShape.part), "image",
                                           ContentType(CurShape.part),
                                           Filename(CurShape.part), slide_idx),
                                  slide_idx)
    /\ Advance
    /\ UNCHANGED <<deck, include_shared_media, pc, slide_media_map, results>>
    /\ UNCHANGED <<vars_img, vars_opt, vars_pkg, vars_cli>>

\* the except branches: the exception is raised by the reads that precede
\* every registry write, the shape is logged and skipped
ExtractionFails ==
    /\ InDiscovery
    /\ CurShape.shape_type \in {"PICTURE", "MEDIA"} /\ ~CurShape.extract_ok
    /\ Advance
    /\ UNCHANGED <<deck, include_shared_media, pc, media_registry, slide_media_map, results>>
    /\ UNCHANGED <<vars_img, vars_opt, vars_pkg, vars_cli>>

\* neither PICTURE nor MEDIA
IgnoreShape ==
    /\ InDiscovery
    /\ CurShape.shape_type \notin {"PICTURE", "MEDIA"}
    /\ Advance
    /\ UNCHANGED <<deck, include_shared_media, pc, media_registry, slide_media_map, results>>
    /\ UNCHANGED <<vars_img, vars_opt, vars_pkg, vars_cli>>

----------------------------------------------------------------------------
(* analyze_pptx_media: the attribution pass *)

\* variant of IsShared that counts distinct slides instead of references
IsSharedAcrossSlides(info) ==
    Cardinality({info.slides[k] : k \in 1..Len(info.slides)}) > 1

\* is_shared = len(media_info['slides']) > 1
IsShared(info) == Len(info.slides) > 1

\* is_first_appearance = media_info['first_slide'] == slide_idx
IsFirstAppearance(info, slide) == info.first_slide = slide

\* variants of CountBytes that drop one of the three conditions
CountBytesNoFirst(include, is_shared, is_first, size_bytes) ==
    IF include \/ ~is_shared THEN size_bytes ELSE 0

CountBytesNoPolicy(include, is_shared, is_first, size_bytes) ==
    IF ~is_shared \/ is_first THEN size_bytes ELSE 0

\* the bytes a reference is charged with
CountBytes(include, is_shared, is_first, size_bytes) ==
    IF include \/ ~is_shared \/ is_first THEN size_bytes ELSE 0

MediaItemOf(ref, reg, slide, include) ==
    LET info == reg[ref.media_key]
    IN  [type |-> ref.type,
         size_bytes |-> CountBytes(include, IsShared(info),
                                   IsFirstAppearance(info, slide), ref.size_bytes),
         filename |-> ref.filename,
         content_type |-> ref.content_type,
         shared |-> IsShared(info)]

MediaItemsOf(refs, reg, slide, include) ==
    [j \in 1..Len(refs) |-> MediaItemOf(refs[j], reg, slide, include)]

\* the four accumulators; the final else collects every other type
Bucket(type) == IF type \in {"image", "video", "audio"} THEN type ELSE "other"

BucketBytes(items, bucket) ==
    SeqSum([j \in 1..Len(items) |->
              IF Bucket(items[j].type) = bucket THEN items[j].size_bytes ELSE 0])

\* variant of TotalMediaBytes that forgets the catch-all bucket
TotalMediaBytesNoOther(image_bytes, video_bytes, audio_bytes, other_media_bytes) ==
    image_bytes + video_bytes + audio_bytes

TotalMediaBytes(image_bytes, video_bytes, audio_bytes, other_media_bytes) ==
    image_bytes + video_bytes + audio_bytes + other_media_bytes

SlideStatsOf(slide, refs, reg, include) ==
    LET items == MediaItemsOf(refs, reg, slide, include)
        ib == BucketBytes(items, "image")
        vb == BucketBytes(items, "video")
        ab == BucketBytes(items, "audio")
        ob == BucketBytes(items, "other")
    IN  [slide_index |-> slide,
         total_media_bytes |-> TotalMediaBytes(ib, vb, ab, ob),
         image_bytes |-> ib, video_bytes |-> vb, audio_bytes |-> ab,
         other_media_bytes |-> ob,
         media_items |-> items]

HasMediaItems(stats) == stats.media_items # <<>>

\* variant of BuildResults that emits a record only for slides with media
BuildResultsSkipEmpty(n, map, reg, include) ==
    SelectSeq([i \in 1..n |-> SlideStatsOf(i, MapGet(map, i), reg, include)], HasMediaItems)

\* the second for loop: one stats record per slide, appended in slide order
BuildResults(n, map, reg, include) ==
    [i \in 1..n |-> SlideStatsOf(i, MapGet(map, i), reg, include)]

\* list.sort(key=..., reverse=True): stable, equal keys keep their order.
\* x goes behind every element whose key is >= its own.
RECURSIVE InsertDesc(_, _, _)
InsertDesc(sorted, x, field) ==
    IF sorted = <<>> THEN <<x>>
    ELSE IF sorted[1][field] >= x[field]
         THEN <<sorted[1]>> \o InsertDesc(Tail(sorted), x, field)
         ELSE <<x>> \o sorted

RECURSIVE SortDescFrom(_, _, _)
SortDescFrom(sorted, rest, field) ==
    IF rest = <<>> THEN sorted
    ELSE SortDescFrom(InsertDesc(sorted, rest[1], field), Tail(rest), field)

\* variant of SortDesc that is not stable: x goes in front of equal keys
RECURSIVE InsertDescTiesFirst(_, _, _)
InsertDescTiesFirst(sorted, x, field) ==
    IF sorted = <<>> THEN <<x>>
    ELSE IF sorted[1][field] > x[field]
         THEN <<sorted[1]>> \o InsertDescTiesFirst(Tail(sorted), x, field)
         ELSE <<x>> \o sorted

RECURSIVE SortDescUnstableFrom(_, _, _)
SortDescUnstableFrom(sorted, rest, field) ==
    IF rest = <<>> THEN sorted
    ELSE SortDescUnstableFrom(InsertDescTiesFirst(sorted, rest[1], field), Tail(rest), field)

SortDescUnstable(list, field) == SortDescUnstableFrom(<<>>, list, field)

SortDesc(list, field) == SortDescFrom(<<>>, list, field)

\* the first pass is exhausted: the second pass over all slides, then
\* results.sort(key=total_media_bytes, reverse=True); return results
AttributeAndReturn ==
    /\ pc = "discover" /\ slide_idx > Len(deck)
    /\ results' = SortDesc(BuildResults(Len(deck), slide_media_map, media_registry,
                                        include_shared_media),
                           "total_media_bytes")
    /\ pc' = "done"
    /\ UNCHANGED <<deck, include_shared_media, slide_idx, shape_idx, media_registry, slide_media_map>>
    /\ UNCHANGED <<vars_img, vars_opt, vars_pkg, vars_cli>>

----------------------------------------------------------------------------
(* Exact integer arithmetic for the quotients the code forms in floats *)

Max(a, b) == IF a >= b THEN a ELSE b

\* <<q, r>> with a * b = q * c + r and 0 <= r < c, by binary expansion of b,
\* so that no intermediate product leaves the 32-bit integers
RECURSIVE MulDivMod(_, _, _)
MulDivMod(a, b, c) ==
    IF b = 0 THEN <<0, 0>>
    ELSE LET h == MulDivMod(a, b \div 2, c)
             r == 2 * h[2] + (IF b % 2 = 1 THEN a % c ELSE 0)
             q == 2 * h[1] + (IF b % 2 = 1 THEN a \div c ELSE 0)
         IN  <<q + (r \div c), r % c>>

\* int(a * b / c) for non-negative a, b and positive c
MulDiv(a, b, c) == MulDivMod(a, b, c)[1]

----------------------------------------------------------------------------
(* get_image_dimensions *)

EmuPerInch == 914400
Dpi == 96

\* int(emu / 914400 * 96)
EmuToPx(emu) == (emu * Dpi) \div EmuPerInch

\* a ratio is kept as the fraction num/den
Ratio(n, d) == [num |-> n, den |-> d]

\* max(width_ratio, height_ratio)
MaxRatio(a, b) == IF a.num * b.den >= b.num * a.den THEN a ELSE b

\* variant of RatioGT that also accepts equality
RatioGE(r, n, d) == r.num * d >= n * r.den

\* r > n/d
RatioGT(r, n, d) == r.num * d > n * r.den

ResolutionRatio(pixel_width, pixel_height, display_width_px, display_height_px) ==
    IF display_width_px > 0 /\ display_height_px > 0
    THEN MaxRatio(Ratio(pixel_width, display_width_px),
                  Ratio(pixel_height, display_height_px))
    ELSE Ratio(1, 1)

GetImageDimensions(img, sh) ==
    LET dw == EmuToPx(sh.width)
        dh == EmuToPx(sh.height)
    IN  [pixel_width |-> img.pixel_width,
         pixel_height |-> img.pixel_height,
         display_width_px |-> dw,
         display_height_px |-> dh,
         resolution_ratio |-> ResolutionRatio(img.pixel_width, img.pixel_height, dw, dh)]

----------------------------------------------------------------------------
(* analyze_image_optimization *)

AbsoluteSizeLimit == 3200
TargetMax == 2560
PngPhotoMinBytes == 1000000
PngPhotoMediumBytes == 3000000

Opportunity(dims, type, cur, pot, rw, rh, cur_fmt, rec_fmt, sev, slide, is_shared) ==
    [opportunity_type |-> type,
     current_bytes |-> cur,
     potential_bytes |-> pot,
     savings_bytes |-> cur - pot,
     display_width_px |-> dims.display_width_px,
     display_height_px |-> dims.display_height_px,
     recommended_width |-> rw,
     recommended_height |-> rh,
     current_format |-> cur_fmt,
     recommended_format |-> rec_fmt,
     severity |-> sev,
     slide_index |-> slide,
     is_shared |-> is_shared]

HasType(opps, type) == \E k \in 1..Len(opps) : opps[k].opportunity_type = type

\* img_format or content_type
FormatLabel(img) == IF img.format # "" THEN img.format ELSE img.content_type

\* pixel_reduction is a binary64 quotient, and current_bytes * pixel_reduction
\* a binary64 product.  With the magnitudes of this model the truncated
\* product differs from the floor of the exact value only where the exact
\* value is a whole number and the two roundings end just below it.  These
\* are the <<current_bytes, recommended area, pixel area>> of the model's
\* inputs where that happens (3000000 * (2400 / 1000000) = 7199.999999999999,
\* 3000000 * (465920 / 875000) = 1597439.9999999998).
FloatProductFallsShort(cur, rec_area, px_area) ==
    <<cur, rec_area, px_area>> \in {<<3000000, 2400, 1000000>>,
                                    <<3000000, 465920, 875000>>,
                                    <<1200000, 2400, 1000000>>,
                                    <<1200000, 42600, 9600000>>}

\* int(current_bytes * pixel_reduction)
ScaledBytes(cur, rw, rh, dims) ==
    LET px_area == dims.pixel_width * dims.pixel_height
        exact == MulDivMod(cur, rw * rh, px_area)
    IN  IF exact[2] = 0 /\ FloatProductFallsShort(cur, rw * rh, px_area)
        THEN exact[1] - 1
        ELSE exact[1]

\* 1. oversized resolution: the guard
OversizedFires(dims) == RatioGT(dims.resolution_ratio, 5, 2)

\* variant of OversizedRecommended that recommends the 2x display box as it is
OversizedRecommendedBox(dims) ==
    <<dims.display_width_px * 2, dims.display_height_px * 2>>

\* the 2x display box, cut back along one axis to the image's aspect ratio
OversizedRecommended(dims) ==
    LET w2 == dims.display_width_px * 2
        h2 == dims.display_height_px * 2
    IN  IF w2 * dims.pixel_height > dims.pixel_width * h2
        THEN <<MulDiv(h2, dims.pixel_width, dims.pixel_height), h2>>
        ELSE <<w2, MulDiv(w2, dims.pixel_height, dims.pixel_width)>>

OversizedSeverity(dims) ==
    IF RatioGT(dims.resolution_ratio, 5, 1) THEN "high" ELSE "medium"

CheckOversized(opps, img, dims, slide, is_shared) ==
    IF OversizedFires(dims)
    THEN LET rec == OversizedRecommended(dims)
         IN  Append(opps,
                    Opportunity(dims, "oversized_resolution", img.current_bytes,
                                ScaledBytes(img.current_bytes, rec[1], rec[2], dims),
                                rec[1], rec[2], FormatLabel(img), FormatLabel(img),
                                OversizedSeverity(dims), slide, is_shared))
    ELSE opps

\* 2. absolute size cap
AbsoluteRecommended(dims) ==
    IF dims.pixel_width > dims.pixel_height
    THEN <<TargetMax, MulDiv(TargetMax, dims.pixel_height, dims.pixel_width)>>
    ELSE <<MulDiv(TargetMax, dims.pixel_width, dims.pixel_height), TargetMax>>

\* variant of AbsoluteSuppressed that never suppresses
NeverSuppressed(opps) == FALSE

\* any(opp['opportunity_type'] == 'oversized_resolution' for opp in opportunities)
AbsoluteSuppressed(opps) == HasType(opps, "oversized_resolution")

CheckAbsoluteSize(opps, img, dims, slide, is_shared) ==
    IF Max(dims.pixel_width, dims.pixel_height) > AbsoluteSizeLimit
       /\ ~AbsoluteSuppressed(opps)
    THEN LET rec == AbsoluteRecommended(dims)
         IN  Append(opps,
                    Opportunity(dims, "absolute_size", img.current_bytes,
                                ScaledBytes(img.current_bytes, rec[1], rec[2], dims),
                                rec[1], rec[2], FormatLabel(img), FormatLabel(img),
                                "medium", slide, is_shared))
    ELSE opps

\* variant of CheckPngPhoto whose size threshold is not strict
CheckPngPhotoInclusive(opps, img, dims, slide, is_shared) ==
    IF img.format = "PNG" /\ img.current_bytes >= PngPhotoMinBytes
    THEN Append(opps,
                Opportunity(dims, "png_photo", img.current_bytes,
                            MulDiv(img.current_bytes, 3, 10),
                            dims.pixel_width, dims.pixel_height, "PNG", "JPEG",
                            IF img.current_bytes > PngPhotoMediumBytes THEN "medium" ELSE "low",
                            slide, is_shared))
    ELSE opps

\* 3. PNG photo: int(current_bytes * 0.3)
CheckPngPhoto(opps, img, dims, slide, is_shared) ==
    IF img.format = "PNG" /\ img.current_bytes > PngPhotoMinBytes
    THEN Append(opps,
                Opportunity(dims, "png_photo", img.current_bytes,
                            MulDiv(img.current_bytes, 3, 10),
                            dims.pixel_width, dims.pixel_height, "PNG", "JPEG",
                            IF img.current_bytes > PngPhotoMediumBytes THEN "medium" ELSE "low",
                            slide, is_shared))
    ELSE opps

\* variant of CheckUncompressedJpeg that also flags exactly one byte per pixel
CheckUncompressedJpegInclusive(opps, img, dims, slide, is_shared) ==
    IF img.format = "JPEG" /\ img.current_bytes >= dims.pixel_width * dims.pixel_height
    THEN Append(opps,
                Opportunity(dims, "uncompressed_jpeg", img.current_bytes,
                            img.current_bytes \div 2,
                            dims.pixel_width, dims.pixel_height,
                            "JPEG (high quality)", "JPEG (quality 85)",
                            "low", slide, is_shared))
    ELSE opps

\* 4. high-quality JPEG: bytes_per_pixel > 1.0, int(current_bytes * 0.5)
CheckUncompressedJpeg(opps, img, dims, slide, is_shared) ==
    IF img.format = "JPEG" /\ img.current_bytes > dims.pixel_width * dims.pixel_height
    THEN Append(opps,
                Opportunity(dims, "uncompressed_jpeg", img.current_bytes,
                            img.current_bytes \div 2,
                            dims.pixel_width, dims.pixel_height,
                            "JPEG (high quality)", "JPEG (quality 85)",
                            "low", slide, is_shared))
    ELSE opps

\* the four checks in their fixed order
AnalyzeImageOptimization(img, dims, slide, is_shared) ==
    LET o1 == CheckOversized(<<>>, img, dims, slide, is_shared)
        o2 == CheckAbsoluteSize(o1, img, dims, slide, is_shared)
        o3 == CheckPngPhoto(o2, img, dims, slide, is_shared)
        o4 == CheckUncompressedJpeg(o3, img, dims, slide, is_shared)
    IN  o4

----------------------------------------------------------------------------
(* One image, one shape: the inputs of the heuristics *)

PixelSizes == {1, 250, 251, 500, 501, 3200, 3201, 3500, 4000}
ByteSizes  == {1, 2, 1000000, 1000001, 3000000, 3000001}
Formats    == {"PNG", "JPEG", "GIF"}
\* EMU extents: below one pixel, 100 px, 960 px, 1600 px
EmuSizes   == {9524, 952500, 9144000, 15240000}

NoDimensions == [pixel_width |-> 0, pixel_height |-> 0, display_width_px |-> 0,
                 display_height_px |-> 0, resolution_ratio |-> Ratio(1, 1)]

ImagesIn ==
    {[format |-> f, content_type |-> "image/x", current_bytes |-> n,
      pixel_width |-> w, pixel_height |-> h] :
        f \in Formats, n \in ByteSizes, w \in PixelSizes, h \in PixelSizes}

ShapesIn == {[width |-> w, height |-> h] : w \in EmuSizes, h \in EmuSizes}

MeasureImage ==
    /\ img_pc = "start"
    /\ dimensions' = GetImageDimensions(image, shape)
    /\ img_pc' = "measured"
    /\ UNCHANGED <<image, shape, opportunities>>
    /\ UNCHANGED <<vars_media, vars_opt, vars_pkg, vars_cli>>

AnalyzeImage ==
    /\ img_pc = "measured"
    /\ opportunities' = AnalyzeImageOptimization(image, dimensions, 1, FALSE)
    /\ img_pc' = "analyzed"
    /\ UNCHANGED <<image, shape, dimensions>>
    /\ UNCHANGED <<vars_media, vars_opt, vars_pkg, vars_cli>>

----------------------------------------------------------------------------
(* analyze_optimization_opportunities *)

\* what Pillow decodes from a blob of the package; imgC is a picture Pillow
\* cannot open (Image.open raises)
Decodable(b) == b \in ImageBlobs

ImageOf(b) ==
    CASE b = "imgA" -> [format |-> "PNG", content_type |-> ContentType(b),
                        current_bytes |-> BlobSize(b),
                        pixel_width |-> 4000, pixel_height |-> 3000]
      [] b = "imgB" -> [format |-> "JPEG", content_type |-> ContentType(b),
                        current_bytes |-> BlobSize(b),
                        pixel_width |-> 20, pixel_height |-> 10]

\* picture shapes of the scanned deck: a full-slide picture (960 x 720 px), a
\* hairline whose width is below one pixel, an undecodable picture, a shape
\* whose image cannot be read, and a shape that is no picture
OptShapes ==
    {[shape_type |-> "PICTURE", part |-> "imgA", extract_ok |-> TRUE,
      width |-> 9144000, height |-> 6858000],
     [shape_type |-> "PICTURE", part |-> "imgA", extract_ok |-> TRUE,
      width |-> 9524, height |-> 6858000],
     [shape_type |-> "PICTURE", part |-> "imgB", extract_ok |-> TRUE,
      width |-> 9144000, height |-> 6858000],
     [shape_type |-> "PICTURE", part |-> "imgC", extract_ok |-> TRUE,
      width |-> 9144000, height |-> 6858000],
     [shape_type |-> "PICTURE", part |-> "imgA", extract_ok |-> FALSE,
      width |-> 9144000, height |-> 6858000],
     [shape_type |-> "MEDIA", part |-> "/ppt/media/media1.mp4", extract_ok |-> TRUE,
      width |-> 9144000, height |-> 6858000]}

OptCurShape == opt_deck[opt_slide][opt_shape]

\* slide_shapes_map[slide_idx] = [] at the head of every iteration of the
\* outer loop: the slides entered when the position moves from slide a to b
EnterSlides(m, a, b, n) ==
    [x \in (DOMAIN m) \cup {i \in (a + 1)..b : i <= n} |->
        IF x \in DOMAIN m THEN m[x] ELSE <<>>]

OptAdvance(map) ==
    LET p == NextPos(opt_deck, opt_slide, opt_shape)
    IN  /\ opt_slide' = p[1]
        /\ opt_shape' = p[2]
        /\ slide_shapes_map' = EnterSlides(map, opt_slide, p[1], Len(opt_deck))

InCollect == opt_pc = "collect" /\ opt_slide <= Len(opt_deck)

NewImageAsset(blob, ct, slide) ==
    [blob |-> blob, content_type |-> ct, slides |-> <<>>, first_slide |-> slide]

\* a PICTURE shape whose image is read
CollectPicture ==
    /\ InCollect
    /\ OptCurShape.shape_type = "PICTURE" /\ OptCurShape.extract_ok
    /\ LET blob == OptCurShape.part
           key  == Hash(blob)
       IN  /\ opt_registry' = Register(opt_registry, key,
                                       NewImageAsset(blob, ContentType(blob), opt_slide),
                                       opt_slide)
           /\ OptAdvance(MapPut(slide_shapes_map, opt_slide,
                                Append(slide_shapes_map[opt_slide], <<OptCurShape, key>>)))
    /\ UNCHANGED <<opt_deck, opt_pc, all_opportunities, analysis_log>>
    /\ UNCHANGED <<vars_media, vars_img, vars_pkg, vars_cli>>

\* shape.image raises: logged, skipped
CollectFails ==
    /\ InCollect
    /\ OptCurShape.shape_type = "PICTURE" /\ ~OptCurShape.extract_ok
    /\ OptAdvance(slide_shapes_map)
    /\ UNCHANGED <<opt_deck, opt_pc, opt_registry, all_opportunities, analysis_log>>
    /\ UNCHANGED <<vars_media, vars_img, vars_pkg, vars_cli>>

\* not a picture
CollectIgnore ==
    /\ InCollect
    /\ OptCurShape.shape_type # "PICTURE"
    /\ OptAdvance(slide_shapes_map)
    /\ UNCHANGED <<opt_deck, opt_pc, opt_registry, all_opportunities, analysis_log>>
    /\ UNCHANGED <<vars_media, vars_img, vars_pkg, vars_cli>>

\* if not is_first_appearance: continue
AnalyzeThis(info, slide) == info.first_slide = slide

\* the inner loop of the second pass over the entries of one slide;
\* acc = <<all_opportunities, analysis_log>>
RECURSIVE AnalyzeEntries(_, _, _, _)
AnalyzeEntries(entries, slide, reg, acc) ==
    IF entries = <<>> THEN acc
    ELSE LET sh   == entries[1][1]
             key  == entries[1][2]
             info == reg[key]
         IN  IF ~AnalyzeThis(info, slide)
             THEN AnalyzeEntries(Tail(entries), slide, reg, acc)
             ELSE IF ~Decodable(info.blob)
             THEN AnalyzeEntries(Tail(entries), slide, reg, acc)
             ELSE LET dims == GetImageDimensions(ImageOf(info.blob), sh)
                      opps == AnalyzeImageOptimization(ImageOf(info.blob), dims, slide,
                                                       Len(info.slides) > 1)
                  IN  AnalyzeEntries(Tail(entries), slide, reg,
                                     <<acc[1] \o opps,
                                       Append(acc[2], [media_key |-> key, slide |-> slide,
                                                       opportunities |-> opps])>>)

\* the second for loop over the slides i..n
RECURSIVE AnalyzeSlides(_, _, _, _, _)
AnalyzeSlides(i, n, map, reg, acc) ==
    IF i > n THEN acc
    ELSE AnalyzeSlides(i + 1, n, map, reg, AnalyzeEntries(MapGet(map, i), i, reg, acc))

\* the first pass is exhausted: the second pass over all slides, then
\* all_opportunities.sort(key=savings_bytes, reverse=True); return
AnalyzeAndReturn ==
    /\ opt_pc = "collect" /\ opt_slide > Len(opt_deck)
    /\ LET acc == AnalyzeSlides(1, Len(opt_deck), slide_shapes_map, opt_registry,
                                <<<<>>, <<>>>>)
       IN  /\ all_opportunities' = SortDesc(acc[1], "savings_bytes")
           /\ analysis_log' = acc[2]
    /\ opt_pc' = "done"
    /\ UNCHANGED <<opt_deck, opt_slide, opt_shape, opt_registry, slide_shapes_map>>
    /\ UNCHANGED <<vars_media, vars_img, vars_pkg, vars_cli>>

----------------------------------------------------------------------------
(* Paths.  A path is a directory and a final component; the component is a *)
(* sequence of characters so that pathlib's suffix, stem and with_stem and *)
(* str.lower can be computed the way the library computes them.            *)

Dirs == {"in", "work"}

Names ==
    {<<"a", ".", "p", "p", "t", "x">>,
     <<"a", ".", "P", "P", "T", "X">>,
     <<"a", ".", "P", "p", "t", "X">>,
     <<"a", ".", "b", ".", "p", "p", "t", "x">>,
     <<"a", "_", "c", "l", "e", "a", "n", "e", "d", ".", "p", "p", "t", "x">>,
     <<"a", ".", "t", "x", "t">>,
     <<"a", ".", "p", "p", "t">>,
     <<".", "p", "p", "t", "x">>,
     <<"p", "p", "t", "x">>,
     <<"a", ".", "p", "p", "t", "x", ".">>}

Paths == {[dir |-> d, name |-> n] : d \in Dirs, n \in Names}

\* name.rfind('.'), 1-based; 0 if the name has no dot
RFindDot(name) ==
    LET dots == {i \in 1..Len(name) : name[i] = "."}
    IN  IF dots = {} THEN 0 ELSE CHOOSE i \in dots : \A j \in dots : j <= i

\* PurePath.suffix: from the last dot on, unless that dot starts or ends the name
Suffix(name) ==
    LET i == RFindDot(name)
    IN  IF 1 < i /\ i < Len(name) THEN SubSeq(name, i, Len(name)) ELSE <<>>

\* PurePath.stem: the name without its suffix
Stem(name) ==
    LET i == RFindDot(name)
    IN  IF 1 < i /\ i < Len(name) THEN SubSeq(name, 1, i - 1) ELSE name

\* variant of Lower that leaves the case alone
LowerKeepsCase(c) == c

\* str.lower() on one character
Lower(c) ==
    CASE c = "P" -> "p"
      [] c = "T" -> "t"
      [] c = "X" -> "x"
      [] OTHER -> c

LowerAll(s) == [i \in 1..Len(s) |-> Lower(s[i])]

PptxSuffix == <<".", "p", "p", "t", "x">>

CleanedTag == <<"_", "c", "l", "e", "a", "n", "e", "d">>

\* PurePath.with_stem(stem): same directory, same suffix
WithStem(p, stem) == [dir |-> p.dir, name |-> stem \o Suffix(p.name)]

\* variant of OutputPath that saves in place
OutputPathInPlace(p) == p

\* file_path.with_stem(file_path.stem + "_cleaned")
OutputPath(p) == WithStem(p, Stem(p.name) \o CleanedTag)

AllPaths == Paths \cup {OutputPath(p) : p \in Paths}

----------------------------------------------------------------------------
(* Files.  A file that parses is a package: its slide masters, each with   *)
(* its own picture shapes and its layout list (sldLayoutIdLst, in order),  *)
(* and its slides, each with the layout part it is related to and its      *)
(* shapes.  python-pptx hands out one SlideLayout object per layout part,  *)
(* so id(layout) is the identity of the part: the field id.                *)

Absent  == [kind |-> "absent", masters |-> <<>>, slides |-> <<>>]
Garbage == [kind |-> "garbage", masters |-> <<>>, slides |-> <<>>]

Package(masters, slides) == [kind |-> "pptx", masters |-> masters, slides |-> slides]

\* the file system that holds src at p, old at the place the cleaned copy
\* of p would go, and nothing else
FilesWith(p, src, old) ==
    [q \in AllPaths |-> IF q = p THEN src
                        ELSE IF q = OutputPath(p) THEN old
                        ELSE Absent]

\* Path.exists()
Exists(files, p) == files[p].kind # "absent"

\* the three checks every entry point makes, in their order
ValidationOutcome(files, p) ==
    IF ~Exists(files, p) THEN "FileNotFoundError: file not found"
    ELSE IF LowerAll(Suffix(p.name)) # PptxSuffix
    THEN "ValueError: unsupported file type (expected .pptx)"
    ELSE IF files[p].kind # "pptx" THEN "ValueError: failed to open .pptx"
    ELSE "ok"

\* the file operations validation performs before it decides
ValidationLog(files, p) ==
    IF ~Exists(files, p) \/ LowerAll(Suffix(p.name)) # PptxSuffix
    THEN <<<<"exists", p>>>>
    ELSE <<<<"exists", p>>, <<"open", p>>>>

----------------------------------------------------------------------------
(* analyze_pptx_media called with a path: validation, then the scan        *)

Calling(f) == op = f /\ pkg_pc = "call"

\* if not file_path.exists(): raise FileNotFoundError
RaiseNotFound ==
    /\ Calling("media")
    /\ ~Exists(fs, path)
    /\ io_log' = Append(io_log, <<"exists", path>>)
    /\ raised' = "FileNotFoundError: file not found"
    /\ pkg_pc' = "raised"
    /\ UNCHANGED <<fs, path, op, masters_report, delete_result>>
    /\ UNCHANGED <<vars_media, vars_img, vars_opt, vars_cli>>

\* if file_path.suffix.lower() != '.pptx': raise ValueError
RaiseUnsupportedType ==
    /\ Calling("media")
    /\ Exists(fs, path)
    /\ LowerAll(Suffix(path.name)) # PptxSuffix
    /\ io_log' = Append(io_log, <<"exists", path>>)
    /\ raised' = "ValueError: unsupported file type (expected .pptx)"
    /\ pkg_pc' = "raised"
    /\ UNCHANGED <<fs, path, op, masters_report, delete_result>>
    /\ UNCHANGED <<vars_media, vars_img, vars_opt, vars_cli>>

\* Presentation(path) raises: raise ValueError("failed to open .pptx: ...")
RaiseCorruptInput ==
    /\ Calling("media")
    /\ Exists(fs, path)
    /\ LowerAll(Suffix(path.name)) = PptxSuffix
    /\ fs[path].kind # "pptx"
    /\ io_log' = io_log \o <<<<"exists", path>>, <<"open", path>>>>
    /\ raised' = "ValueError: failed to open .pptx"
    /\ pkg_pc' = "raised"
    /\ UNCHANGED <<fs, path, op, masters_report, delete_result>>
    /\ UNCHANGED <<vars_media, vars_img, vars_opt, vars_cli>>

\* prs.slides as the scan sees it: the shapes of each slide
SlidesOfPackage(pkg) == [i \in 1..Len(pkg.slides) |-> pkg.slides[i].shapes]

\* prs = Presentation(path) succeeds; the first pass starts
OpenPresentation ==
    /\ Calling("media")
    /\ Exists(fs, path)
    /\ LowerAll(Suffix(path.name)) = PptxSuffix
    /\ fs[path].kind = "pptx"
    /\ io_log' = io_log \o <<<<"exists", path>>, <<"open", path>>>>
    /\ pkg_pc' = "opened"
    /\ deck' = SlidesOfPackage(fs[path])
    /\ pc' = "discover"
    /\ slide_idx' = FirstPos(SlidesOfPackage(fs[path]))[1]
    /\ shape_idx' = FirstPos(SlidesOfPackage(fs[path]))[2]
    /\ UNCHANGED <<include_shared_media, media_registry, slide_media_map, results>>
    /\ UNCHANGED <<fs, path, op, raised, masters_report, delete_result>>
    /\ UNCHANGED <<vars_img, vars_opt, vars_cli>>

----------------------------------------------------------------------------
(* analyze_slide_masters *)

\* every layout of the package, over all masters
LayoutsOf(pkg) ==
    UNION {{pkg.masters[m].layouts[j] : j \in 1..Len(pkg.masters[m].layouts)} :
              m \in 1..Len(pkg.masters)}

\* slide.slide_layout: the layout object of the part the slide is related to
SlideLayout(pkg, i) == CHOOSE l \in LayoutsOf(pkg) : l.id = pkg.slides[i].layout

\* variant of LayoutKey that tells layouts apart by their name
LayoutKeyByName(layout) == layout.name

\* id(layout)
LayoutKey(layout) == layout.id

\* the loop that fills layout_usage, from slide i on
RECURSIVE LayoutUsageFrom(_, _, _)
LayoutUsageFrom(pkg, i, usage) ==
    IF i > Len(pkg.slides) THEN usage
    ELSE LET layout_id == LayoutKey(SlideLayout(pkg, i))
         IN  LayoutUsageFrom(pkg, i + 1,
                             MapPut(usage, layout_id, Append(MapGet(usage, layout_id), i)))

LayoutUsage(pkg) == LayoutUsageFrom(pkg, 1, EmptyMap)

\* <<bytes, count>> of the PICTURE shapes whose blob can be read; a shape
\* whose image raises is logged and skipped, any other shape type ignored
RECURSIVE PictureMedia(_)
PictureMedia(shapes) ==
    IF shapes = <<>> THEN <<0, 0>>
    ELSE LET rest == PictureMedia(Tail(shapes))
             sh   == shapes[1]
         IN  IF sh.shape_type = "PICTURE" /\ sh.extract_ok
             THEN <<BlobSize(sh.part) + rest[1], 1 + rest[2]>>
             ELSE rest

\* layout.name if it has one, else f"Layout {layout_idx}"
LayoutName(layout, layout_idx) ==
    IF layout.name # "" THEN layout.name ELSE "Layout " \o ToString(layout_idx)

LayoutStat(layout, layout_idx, usage) ==
    LET slides_using == MapGet(usage, LayoutKey(layout))
        media == PictureMedia(layout.shapes)
    IN  [layout_name |-> LayoutName(layout, layout_idx),
         layout_index |-> layout_idx,
         total_media_bytes |-> media[1] + 0 + 0 + 0,
         image_bytes |-> media[1],
         video_bytes |-> 0,
         audio_bytes |-> 0,
         other_media_bytes |-> 0,
         media_count |-> media[2],
         is_used |-> Len(slides_using) > 0,
         slides_using |-> slides_using]

LayoutStats(master, usage) ==
    [j \in 1..Len(master.layouts) |-> LayoutStat(master.layouts[j], j, usage)]

\* variant of UnusedBytes that also charges layouts in use
UnusedBytesAlways(stat) == stat.total_media_bytes

\* if not is_used: master_unused_bytes += layout_total
UnusedBytes(stat) == IF ~stat.is_used THEN stat.total_media_bytes ELSE 0

\* if not is_used: unused_layouts += 1
UnusedCount(stat) == IF ~stat.is_used THEN 1 ELSE 0

MasterStat(master, master_idx, usage) ==
    LET media == PictureMedia(master.shapes)
        layout_stats == LayoutStats(master, usage)
    IN  [master_index |-> master_idx,
         total_media_bytes |-> media[1] + 0 + 0 + 0,
         image_bytes |-> media[1],
         video_bytes |-> 0,
         audio_bytes |-> 0,
         other_media_bytes |-> 0,
         media_count |-> media[2],
         layouts |-> layout_stats,
         total_layout_bytes |->
             SeqSum([j \in 1..Len(layout_stats) |-> layout_stats[j].total_media_bytes]),
         unused_layout_bytes |->
             SeqSum([j \in 1..Len(layout_stats) |-> UnusedBytes(layout_stats[j])])]

MastersReport(pkg) ==
    LET usage == LayoutUsage(pkg)
        masters_stats == [m \in 1..Len(pkg.masters) |-> MasterStat(pkg.masters[m], m, usage)]
        n == Len(masters_stats)
    IN  [total_masters |-> Len(pkg.masters),
         total_layouts |-> SeqSum([m \in 1..n |-> Len(masters_stats[m].layouts)]),
         unused_layouts |->
             SeqSum([m \in 1..n |->
                        SeqSum([j \in 1..Len(masters_stats[m].layouts) |->
                                   UnusedCount(masters_stats[m].layouts[j])])]),
         total_master_media_bytes |-> SeqSum([m \in 1..n |-> masters_stats[m].total_media_bytes]),
         total_layout_media_bytes |-> SeqSum([m \in 1..n |-> masters_stats[m].total_layout_bytes]),
         unused_layout_media_bytes |->
             SeqSum([m \in 1..n |-> masters_stats[m].unused_layout_bytes]),
         masters |-> masters_stats]

NoReport ==
    [total_masters |-> 0, total_layouts |-> 0, unused_layouts |-> 0,
     total_master_media_bytes |-> 0, total_layout_media_bytes |-> 0,
     unused_layout_media_bytes |-> 0, masters |-> <<>>]

\* validation fails: the exception leaves analyze_slide_masters
AnalyzeSlideMastersRaises ==
    /\ Calling("masters")
    /\ ValidationOutcome(fs, path) # "ok"
    /\ io_log' = io_log \o ValidationLog(fs, path)
    /\ raised' = ValidationOutcome(fs, path)
    /\ pkg_pc' = "raised"
    /\ UNCHANGED <<fs, path, op, masters_report, delete_result>>
    /\ UNCHANGED <<vars_media, vars_img, vars_opt, vars_cli>>

AnalyzeSlideMasters ==
    /\ Calling("masters")
    /\ ValidationOutcome(fs, path) = "ok"
    /\ io_log' = io_log \o ValidationLog(fs, path)
    /\ masters_report' = MastersReport(fs[path])
    /\ pkg_pc' = "returned"
    /\ UNCHANGED <<fs, path, op, raised, delete_result>>
    /\ UNCHANGED <<vars_media, vars_img, vars_opt, vars_cli>>

----------------------------------------------------------------------------
(* delete_unused_layouts *)

\* variant of UsedLayoutIds that looks at the first slide only
UsedLayoutIdsOfFirstSlide(pkg) ==
    {LayoutKey(SlideLayout(pkg, i)) : i \in {k \in 1..Len(pkg.slides) : k = 1}}

\* used_layout_ids
UsedLayoutIds(pkg) == {LayoutKey(SlideLayout(pkg, i)) : i \in 1..Len(pkg.slides)}

\* layouts_to_delete of one master: (layout, layout_bytes) in list order
LayoutsToDelete(master, used) ==
    LET Unused(l) == LayoutKey(l) \notin used
        picked == SelectSeq(master.layouts, Unused)
    IN  [j \in 1..Len(picked) |-> <<picked[j], PictureMedia(picked[j].shapes)[1]>>]

\* the first sldLayoutId whose relationship targets layout.part, 0 if none
EntryOf(layouts, layout) ==
    LET hits == {j \in 1..Len(layouts) : layouts[j].id = layout.id}
    IN  IF hits = {} THEN 0 ELSE CHOOSE j \in hits : \A h \in hits : j <= h

\* sldLayoutIdLst.remove(sldLayoutId)
RemoveAt(layouts, j) == SubSeq(layouts, 1, j - 1) \o SubSeq(layouts, j + 1, Len(layouts))

\* variant of DeleteFrom that counts a layout as deleted and leaves its
\* entry in the list
RECURSIVE DeleteFromCountsOnly(_, _)
DeleteFromCountsOnly(to_delete, acc) ==
    IF to_delete = <<>> THEN acc
    ELSE DeleteFromCountsOnly(Tail(to_delete),
                              <<acc[1], acc[2] + 1, acc[3] + to_delete[1][2]>>)

\* the inner deletion loop of one master;
\* acc = <<layout list, layouts_deleted, bytes_saved>>
RECURSIVE DeleteFrom(_, _)
DeleteFrom(to_delete, acc) ==
    IF to_delete = <<>> THEN acc
    ELSE LET j == EntryOf(acc[1], to_delete[1][1])
         IN  IF j = 0
             THEN DeleteFrom(Tail(to_delete), acc)
             ELSE DeleteFrom(Tail(to_delete),
                             <<RemoveAt(acc[1], j), acc[2] + 1, acc[3] + to_delete[1][2]>>)

\* the loop over the masters from m on;
\* acc = <<masters, layouts_deleted, bytes_saved>>
RECURSIVE StripMastersFrom(_, _, _)
StripMastersFrom(m, used, acc) ==
    IF m > Len(acc[1]) THEN acc
    ELSE LET master == acc[1][m]
             done == DeleteFrom(LayoutsToDelete(master, used),
                                <<master.layouts, acc[2], acc[3]>>)
         IN  StripMastersFrom(m + 1, used,
                              <<[acc[1] EXCEPT ![m] = [master EXCEPT !.layouts = done[1]]],
                                done[2], done[3]>>)

\* prs after the deletion loops, with the two counters
StripUnused(pkg) ==
    LET done == StripMastersFrom(1, UsedLayoutIds(pkg), <<pkg.masters, 0, 0>>)
    IN  [prs |-> Package(done[1], pkg.slides),
         layouts_deleted |-> done[2],
         bytes_saved |-> done[3]]

NoResult == [layouts_deleted |-> 0, bytes_saved |-> 0, output_path |-> [dir |-> "", name |-> <<>>]]

\* validation fails: the exception leaves delete_unused_layouts
DeleteUnusedLayoutsRaises ==
    /\ Calling("delete")
    /\ ValidationOutcome(fs, path) # "ok"
    /\ io_log' = io_log \o ValidationLog(fs, path)
    /\ raised' = ValidationOutcome(fs, path)
    /\ pkg_pc' = "raised"
    /\ UNCHANGED <<fs, path, op, masters_report, delete_result>>
    /\ UNCHANGED <<vars_media, vars_img, vars_opt, vars_cli>>

\* the layouts are unlinked in memory and prs.save(output_path) succeeds
DeleteUnusedLayouts ==
    /\ Calling("delete")
    /\ ValidationOutcome(fs, path) = "ok"
    /\ LET done == StripUnused(fs[path])
           output_path == OutputPath(path)
       IN  /\ fs' = [fs EXCEPT ![output_path] = done.prs]
           /\ io_log' = io_log \o ValidationLog(fs, path) \o <<<<"save", output_path>>>>
           /\ delete_result' = [layouts_deleted |-> done.layouts_deleted,
                                bytes_saved |-> done.bytes_saved,
                                output_path |-> output_path]
    /\ pkg_pc' = "returned"
    /\ UNCHANGED <<path, op, raised, masters_report>>
    /\ UNCHANGED <<vars_media, vars_img, vars_opt, vars_cli>>

\* prs.save(output_path) raises: IOError.  The target is untouched (it could
\* not be opened for writing) or left with a truncated archive.
DeleteSaveFails ==
    /\ Calling("delete")
    /\ ValidationOutcome(fs, path) = "ok"
    /\ LET output_path == OutputPath(path)
       IN  /\ \E left \in {fs[output_path], Garbage} :
                 fs' = [fs EXCEPT ![output_path] = left]
           /\ io_log' = io_log \o ValidationLog(fs, path) \o <<<<"save", output_path>>>>
    /\ raised' = "IOError: failed to save cleaned presentation"
    /\ pkg_pc' = "raised"
    /\ UNCHANGED <<path, op, masters_report, delete_result>>
    /\ UNCHANGED <<vars_media, vars_img, vars_opt, vars_cli>>

\* a later run on the copy an earlier run saved: the tool is started again
\* with the output path it printed, for an audit or for another clean-up.
\* A new call starts with an empty log and no results.  The model stops
\* where its file system has no name left for a further copy.
RunOnCleanedCopy ==
    /\ op = "delete" /\ pkg_pc = "returned"
    /\ OutputPath(delete_result.output_path) \in AllPaths
    /\ path' = delete_result.output_path
    /\ \E f \in {"masters", "delete"} : op' = f
    /\ pkg_pc' = "call"
    /\ io_log' = <<>>
    /\ masters_report' = NoReport
    /\ delete_result' = NoResult
    /\ UNCHANGED <<fs, raised>>
    /\ UNCHANGED <<vars_media, vars_img, vars_opt, vars_cli>>

----------------------------------------------------------------------------
(* The files of the model *)

\* layouts as a template offers them: two that share a name and differ in
\* their pictures (one with an unreadable picture and a movie next to the
\* readable one), and a nameless one without media
LayoutKinds ==
    <<[name |-> "Title",
       shapes |-> <<[shape_type |-> "PICTURE", part |-> "imgA", extract_ok |-> TRUE]>>],
      [name |-> "Title",
       shapes |-> <<[shape_type |-> "PICTURE", part |-> "imgB", extract_ok |-> TRUE],
                    [shape_type |-> "PICTURE", part |-> "imgA", extract_ok |-> FALSE],
                    [shape_type |-> "MEDIA", part |-> "/ppt/media/media1.mp4",
                     extract_ok |-> TRUE]>>],
      [name |-> "", shapes |-> <<>>]>>

\* layout part j of a package whose layouts run through the kinds from
\* offset r on
LayoutPart(j, r) ==
    LET kind == LayoutKinds[((j + r) % Len(LayoutKinds)) + 1]
    IN  [id |-> j, name |-> kind.name, shapes |-> kind.shapes]

\* the first master carries a logo and a picture that cannot be read
MasterShapes(m) ==
    IF m = 1
    THEN <<[shape_type |-> "PICTURE", part |-> "imgC", extract_ok |-> TRUE],
           [shape_type |-> "PICTURE", part |-> "imgA", extract_ok |-> FALSE]>>
    ELSE <<>>

\* n masters sharing k layouts (master at[j] lists layout j), and one slide
\* per entry of refs, related to layout refs[i]
PackageFrom(n, k, r, at, refs, slide_shapes) ==
    LET lists == DeckFrom(n, [j \in 1..k |-> LayoutPart(j, r)], at)
    IN  Package([m \in 1..n |-> [shapes |-> MasterShapes(m), layouts |-> lists[m]]],
                [i \in 1..Len(refs) |-> [layout |-> refs[i], shapes |-> slide_shapes[i]]])

\* two masters, the second with two layouts of one name of which one is in use
SamplePackage ==
    PackageFrom(2, 3, 0, <<1, 2, 2>>, <<3, 1, 3>>, <<<<>>, <<>>, <<>>>>)

\* packages for the media scan: one master with one layout, and slides with shapes
MediaPackages ==
    {PackageFrom(1, 1, 0, <<1>>, <<1, 1>>,
                 <<<<[shape_type |-> "PICTURE", part |-> "imgA", extract_ok |-> TRUE],
                     [shape_type |-> "MEDIA", part |-> "/ppt/media/media1.mp4",
                      extract_ok |-> TRUE]>>,
                   <<[shape_type |-> "PICTURE", part |-> "imgA", extract_ok |-> TRUE],
                     [shape_type |-> "PICTURE", part |-> "imgA", extract_ok |-> FALSE],
                     [shape_type |-> "TEXT_BOX", part |-> "", extract_ok |-> TRUE]>>>>),
     PackageFrom(1, 1, 0, <<1>>, <<1>>,
                 <<<<[shape_type |-> "TEXT_BOX", part |-> "", extract_ok |-> TRUE]>>>>)}

GoodPath == [dir |-> "work", name |-> <<"a", ".", "p", "p", "t", "x">>]

----------------------------------------------------------------------------
(* format_bytes.  A byte count n is kept as gib * 1024^3 + rest with       *)
(* rest < 1024^3, so that counts beyond the 32-bit integers can be given.  *)
(* num_bytes /= 1024.0 is exact in binary64 for counts below 2^53: the     *)
(* value in a unit is the count over the unit's divisor.                   *)

Kibi == 1024
Gibi == Kibi * Kibi * Kibi

ByteCount(n) == [gib |-> n \div Gibi, rest |-> n % Gibi]

Units == <<"B", "KB", "MB", "GB">>

\* <<q, r>> + <<q2, r2>> for quotient/remainder pairs to the divisor d
AddQR(a, b, d) ==
    IF a[2] >= d - b[2] THEN <<a[1] + b[1] + 1, a[2] - (d - b[2])>>
    ELSE <<a[1] + b[1], a[2] + b[2]>>

\* <<q, r>> with 10 * f = q * d + r and 0 <= r < d, for 0 <= f < d
TimesTen(f, d) ==
    LET x2 == AddQR(<<0, f>>, <<0, f>>, d)
        x4 == AddQR(x2, x2, d)
        x8 == AddQR(x4, x4, d)
    IN  AddQR(x8, x2, d)

\* variant of Below1024 that lets 1024 itself stay in the smaller unit
Below1024Inclusive(count, divisor) == count.gib = 0 /\ count.rest <= Kibi * divisor

\* num_bytes < 1024.0, num_bytes being the count over divisor
Below1024(count, divisor) == count.gib = 0 /\ count.rest < Kibi * divisor

\* f"{num_bytes:.1f}": the value to the nearest tenth, a tie to the even one
OneDecimal(count, divisor) ==
    LET whole == count.gib * (Gibi \div divisor) + (count.rest \div divisor)
        frac == TimesTen(count.rest % divisor, divisor)
        up == \/ frac[2] > divisor - frac[2]
              \/ frac[2] = divisor - frac[2] /\ frac[1] % 2 = 1
        tenths == whole * 10 + frac[1] + (IF up THEN 1 ELSE 0)
    IN  ToString(tenths \div 10) \o "." \o ToString(tenths % 10)

\* the loop over the units, entered at unit with the count over divisor
RECURSIVE FormatFrom(_, _, _)
FormatFrom(count, unit, divisor) ==
    IF Units[unit] = "GB" \/ Below1024(count, divisor)
    THEN IF Units[unit] = "B"
         THEN ToString(count.rest) \o " B"
         ELSE OneDecimal(count, divisor) \o " " \o Units[unit]
    ELSE FormatFrom(count, unit + 1, divisor * Kibi)

FormatBytes(count) ==
    IF count.gib = 0 /\ count.rest = 0 THEN "0.0 MB" ELSE FormatFrom(count, 1, 1)

\* byte counts around the unit boundaries, at ties of the rounding, and
\* far beyond 1024 GB
ByteRests ==
    {0, 1, 500, 1023, 1024, 1025, 1075, 1076, 1280, 1792, 10189, 1048524, 1048525,
     1048575, 1048576, 1572864, 53687091, 536870912, 1073689395, 1073741823}

ByteCounts == {[gib |-> g, rest |-> r] : g \in {0, 1, 2, 1023, 1024, 5000}, r \in ByteRests}

FormatBytesCall ==
    /\ fmt_pc = "call"
    /\ formatted' = FormatBytes(num_bytes)
    /\ fmt_pc' = "returned"
    /\ UNCHANGED <<argv, main_pc, out, exit_code, num_bytes>>
    /\ UNCHANGED <<vars_media, vars_img, vars_opt, vars_pkg>>

----------------------------------------------------------------------------
(* main and print_console_output.  argv is the parsed command line; out is *)
(* what the run has produced so far, in order: blocks printed to stdout,   *)
(* the message printed to stderr, and the files the writers have written.  *)

\* the branch the if/elif chain of main takes
SelectedMode(a) ==
    IF a.delete_unused_layouts THEN "delete"
    ELSE IF a.masters_report THEN "masters"
    ELSE IF a.optimization_report THEN "optimization"
    ELSE "standard"

Event(stream, block, text, rows) ==
    [stream |-> stream, block |-> block, text |-> text, rows |-> rows]

\* the first call a mode makes; the delete mode starts with the report
FirstCall(mode) ==
    CASE mode = "delete" -> "masters"
      [] mode = "masters" -> "masters"
      [] mode = "optimization" -> "optimization"
      [] mode = "standard" -> "media"

\* try: the branch is chosen and its first engine called with args.input_path
MainSelectMode ==
    /\ main_pc = "start"
    /\ op' = FirstCall(SelectedMode(argv))
    /\ pkg_pc' = "call"
    /\ main_pc' = "engine"
    /\ UNCHANGED <<argv, out, exit_code, num_bytes, fmt_pc, formatted>>
    /\ UNCHANGED <<fs, path, raised, io_log, masters_report, delete_result>>
    /\ UNCHANGED <<vars_media, vars_img, vars_opt>>

\* validation fails: the exception leaves analyze_optimization_opportunities
OptimizationRaises ==
    /\ Calling("optimization")
    /\ ValidationOutcome(fs, path) # "ok"
    /\ io_log' = io_log \o ValidationLog(fs, path)
    /\ raised' = ValidationOutcome(fs, path)
    /\ pkg_pc' = "raised"
    /\ UNCHANGED <<fs, path, op, masters_report, delete_result>>
    /\ UNCHANGED <<vars_media, vars_img, vars_opt, vars_cli>>

\* prs = Presentation(path) succeeds; the first pass over the pictures starts
OpenForOptimization ==
    /\ Calling("optimization")
    /\ ValidationOutcome(fs, path) = "ok"
    /\ io_log' = io_log \o ValidationLog(fs, path)
    /\ pkg_pc' = "opened"
    /\ LET slides == SlidesOfPackage(fs[path])
       IN  /\ opt_deck' = slides
           /\ opt_pc' = "collect"
           /\ opt_slide' = FirstPos(slides)[1]
           /\ opt_shape' = FirstPos(slides)[2]
           /\ slide_shapes_map' = EnterSlides(EmptyMap, 0, FirstPos(slides)[1], Len(slides))
    /\ UNCHANGED <<opt_registry, all_opportunities, analysis_log>>
    /\ UNCHANGED <<fs, path, op, raised, masters_report, delete_result>>
    /\ UNCHANGED <<vars_media, vars_img, vars_cli>>

\* if shape.shape_type == MSO_SHAPE_TYPE.PICTURE is evaluated outside the
\* try blocks of the first pass.  For a shape the library has no type for,
\* the property either answers None (the shape is then ignored) or raises
\* NotImplementedError, which leaves analyze_pptx_media: which of the two
\* is the library's choice, so both are steps of the scan.
ShapeTypeRaises ==
    /\ InDiscovery
    /\ CurShape.shape_type = "UNSUPPORTED"
    /\ raised' = "NotImplementedError: shape_type not implemented"
    /\ pkg_pc' = "raised"
    /\ pc' = "aborted"
    /\ UNCHANGED <<deck, include_shared_media, slide_idx, shape_idx, media_registry,
                   slide_media_map, results>>
    /\ UNCHANGED <<fs, path, op, io_log, masters_report, delete_result>>
    /\ UNCHANGED <<vars_img, vars_opt, vars_cli>>

\* results[:n] for an integer n
Slice(s, n) ==
    IF n >= 0 THEN SubSeq(s, 1, IF n < Len(s) THEN n ELSE Len(s))
    ELSE SubSeq(s, 1, IF Len(s) + n > 0 THEN Len(s) + n ELSE 0)

\* display_results = results[:top_n] if top_n else results, and one line
\* per entry: rank from 1, slide number and formatted size
PrintConsoleOutput(stats, top) ==
    LET display_results == IF top.given /\ top.n # 0 THEN Slice(stats, top.n) ELSE stats
    IN  [rank \in 1..Len(display_results) |->
            [rank |-> rank,
             slide_num |-> display_results[rank].slide_index,
             size_str |-> FormatBytes(ByteCount(display_results[rank].total_media_bytes))]]

\* print_console_output(results, args.input_path, args.top)
MainPrintConsole ==
    /\ main_pc = "engine" /\ op = "media" /\ pc = "done"
    /\ out' = Append(out, Event("stdout", "listing", ToString(Len(results)),
                                PrintConsoleOutput(results, argv.top)))
    /\ main_pc' = "json"
    /\ UNCHANGED <<argv, exit_code, num_bytes, fmt_pc, formatted>>
    /\ UNCHANGED <<vars_media, vars_img, vars_opt, vars_pkg>>

\* destinations open(path, 'w') succeeds on
WritablePaths == {"out.json", "out.csv"}

\* variant of MainWriteJson that goes on to the CSV output after a failed write
MainWriteJsonAndGoOn ==
    /\ main_pc = "json"
    /\ IF argv.output_json = "" THEN out' = out
       ELSE IF argv.output_json \in WritablePaths
       THEN out' = Append(out, Event("file", "json", argv.output_json, <<>>))
       ELSE out' = Append(out, Event("stderr", "error",
                                     "Error: IOError: failed to write output file", <<>>))
    /\ main_pc' = "csv"
    /\ UNCHANGED <<argv, exit_code, num_bytes, fmt_pc, formatted>>
    /\ UNCHANGED <<vars_media, vars_img, vars_opt, vars_pkg>>

\* if args.output_json: write_json_output(results, args.output_json); a
\* failure to open or write is raised as IOError
MainWriteJson ==
    /\ main_pc = "json"
    /\ IF argv.output_json = ""
       THEN main_pc' = "csv" /\ UNCHANGED <<out, raised>>
       ELSE IF argv.output_json \in WritablePaths
       THEN /\ out' = Append(out, Event("file", "json", argv.output_json, <<>>))
            /\ main_pc' = "csv"
            /\ UNCHANGED raised
       ELSE /\ raised' = "IOError: failed to write output file"
            /\ main_pc' = "except"
            /\ UNCHANGED out
    /\ UNCHANGED <<argv, exit_code, num_bytes, fmt_pc, formatted>>
    /\ UNCHANGED <<fs, path, op, pkg_pc, io_log, masters_report, delete_result>>
    /\ UNCHANGED <<vars_media, vars_img, vars_opt>>

\* if args.output_csv: write_csv_output(results, args.output_csv)
MainWriteCsv ==
    /\ main_pc = "csv"
    /\ IF argv.output_csv = ""
       THEN main_pc' = "return" /\ UNCHANGED <<out, raised>>
       ELSE IF argv.output_csv \in WritablePaths
       THEN /\ out' = Append(out, Event("file", "csv", argv.output_csv, <<>>))
            /\ main_pc' = "return"
            /\ UNCHANGED raised
       ELSE /\ raised' = "IOError: failed to write output file"
            /\ main_pc' = "except"
            /\ UNCHANGED out
    /\ UNCHANGED <<argv, exit_code, num_bytes, fmt_pc, formatted>>
    /\ UNCHANGED <<fs, path, op, pkg_pc, io_log, masters_report, delete_result>>
    /\ UNCHANGED <<vars_media, vars_img, vars_opt>>

MastersBlock(report) ==
    Event("stdout", "masters", ToString(report.unused_layouts), <<>>)

\* elif args.masters_report: the report is printed
MainPrintMastersReport ==
    /\ main_pc = "engine" /\ SelectedMode(argv) = "masters"
    /\ op = "masters" /\ pkg_pc = "returned"
    /\ out' = Append(out, MastersBlock(masters_report))
    /\ main_pc' = "return"
    /\ UNCHANGED <<argv, exit_code, num_bytes, fmt_pc, formatted>>
    /\ UNCHANGED <<vars_media, vars_img, vars_opt, vars_pkg>>

\* if args.delete_unused_layouts: the report is printed, and with
\* report['unused_layouts'] > 0 delete_unused_layouts is called
MainDeleteUnused ==
    /\ main_pc = "engine" /\ SelectedMode(argv) = "delete"
    /\ op = "masters" /\ pkg_pc = "returned"
    /\ masters_report.unused_layouts > 0
    /\ out' = Append(out, MastersBlock(masters_report))
    /\ op' = "delete"
    /\ pkg_pc' = "call"
    /\ UNCHANGED <<argv, main_pc, exit_code, num_bytes, fmt_pc, formatted>>
    /\ UNCHANGED <<fs, path, raised, io_log, masters_report, delete_result>>
    /\ UNCHANGED <<vars_media, vars_img, vars_opt>>

\* else: print("\nNo unused layouts to delete.")
MainNothingToDelete ==
    /\ main_pc = "engine" /\ SelectedMode(argv) = "delete"
    /\ op = "masters" /\ pkg_pc = "returned"
    /\ ~(masters_report.unused_layouts > 0)
    /\ out' = out \o <<MastersBlock(masters_report),
                       Event("stdout", "nothing", "No unused layouts to delete.", <<>>)>>
    /\ main_pc' = "return"
    /\ UNCHANGED <<argv, exit_code, num_bytes, fmt_pc, formatted>>
    /\ UNCHANGED <<vars_media, vars_img, vars_opt, vars_pkg>>

\* CLEANUP COMPLETE, with the hint on orphaned media if bytes_saved > 0
MainCleanupComplete ==
    /\ main_pc = "engine" /\ op = "delete" /\ pkg_pc = "returned"
    /\ out' = Append(out, Event("stdout", "cleanup", ToString(delete_result.layouts_deleted),
                                IF delete_result.bytes_saved > 0
                                THEN <<FormatBytes(ByteCount(delete_result.bytes_saved))>>
                                ELSE <<>>))
    /\ main_pc' = "return"
    /\ UNCHANGED <<argv, exit_code, num_bytes, fmt_pc, formatted>>
    /\ UNCHANGED <<vars_media, vars_img, vars_opt, vars_pkg>>

\* print_optimization_report(opportunities, args.input_path)
MainPrintOptimization ==
    /\ main_pc = "engine" /\ op = "optimization" /\ opt_pc = "done"
    /\ out' = Append(out, Event("stdout", "optimization",
                                ToString(Len(all_opportunities)), <<>>))
    /\ main_pc' = "return"
    /\ UNCHANGED <<argv, exit_code, num_bytes, fmt_pc, formatted>>
    /\ UNCHANGED <<vars_media, vars_img, vars_opt, vars_pkg>>

\* return 0
MainReturns ==
    /\ main_pc = "return"
    /\ exit_code' = 0
    /\ main_pc' = "exit"
    /\ UNCHANGED <<argv, out, num_bytes, fmt_pc, formatted>>
    /\ UNCHANGED <<vars_media, vars_img, vars_opt, vars_pkg>>

ReportedAsIs ==
    {"FileNotFoundError: file not found",
     "ValueError: unsupported file type (expected .pptx)",
     "ValueError: failed to open .pptx",
     "IOError: failed to save cleaned presentation",
     "IOError: failed to write output file"}

\* the except clauses: FileNotFoundError, ValueError and IOError print
\* f"Error: {e}", any other exception f"Error: unexpected error: {e}".
\* The class name in the text stands for the exception object.
StderrMessage(e) ==
    IF e \in ReportedAsIs THEN "Error: " \o e ELSE "Error: unexpected error: " \o e

\* variant of MainReportsError that swallows the exception
MainSwallowsError ==
    /\ main_pc \in {"engine", "except"}
    /\ raised # "none"
    /\ exit_code' = 0
    /\ main_pc' = "exit"
    /\ UNCHANGED <<argv, out, num_bytes, fmt_pc, formatted>>
    /\ UNCHANGED <<vars_media, vars_img, vars_opt, vars_pkg>>

\* an exception raised inside the try reaches its except clause: the
\* message goes to stderr and main returns 1
MainReportsError ==
    /\ main_pc \in {"engine", "except"}
    /\ raised # "none"
    /\ out' = Append(out, Event("stderr", "error", StderrMessage(raised), <<>>))
    /\ exit_code' = 1
    /\ main_pc' = "exit"
    /\ UNCHANGED <<argv, num_bytes, fmt_pc, formatted>>
    /\ UNCHANGED <<vars_media, vars_img, vars_opt, vars_pkg>>

\* --top absent, 0, a count below, at and above the number of slides, and
\* a negative count
Tops ==
    {[given |-> FALSE, n |-> 0]} \cup {[given |-> TRUE, n |-> k] : k \in {-1, 0, 1, 2, 5}}

\* every command line of the three mode flags, --top, --output-json and
\* --output-csv; an option left out has argparse's default
ArgSets ==
    [delete_unused_layouts : BOOLEAN, masters_report : BOOLEAN,
     optimization_report : BOOLEAN, top : Tops,
     output_json : {"", "out.json", "missing/out.json"},
     output_csv : {"", "out.csv", "missing/out.csv"}]

\* packages for every mode: slides that share a full-slide picture next to a
\* movie and an unreadable picture, two masters with unused layouts, a shape
\* the library has no type for, and a package without slides
MainPackages ==
    {PackageFrom(1, 1, 0, <<1>>, <<1, 1>>,
                 <<<<[shape_type |-> "PICTURE", part |-> "imgA", extract_ok |-> TRUE,
                      width |-> 9144000, height |-> 6858000],
                     [shape_type |-> "MEDIA", part |-> "/ppt/media/media1.mp4",
                      extract_ok |-> TRUE, width |-> 9144000, height |-> 6858000]>>,
                   <<[shape_type |-> "PICTURE", part |-> "imgA", extract_ok |-> FALSE,
                      width |-> 9144000, height |-> 6858000],
                     [shape_type |-> "PICTURE", part |-> "imgA", extract_ok |-> TRUE,
                      width |-> 9144000, height |-> 6858000]>>>>),
     PackageFrom(2, 3, 0, <<1, 2, 2>>, <<3, 1, 3>>,
                 <<<<[shape_type |-> "PICTURE", part |-> "imgB", extract_ok |-> TRUE,
                      width |-> 9144000, height |-> 6858000]>>,
                   <<>>,
                   <<[shape_type |-> "PICTURE", part |-> "imgA", extract_ok |-> TRUE,
                      width |-> 9144000, height |-> 6858000]>>>>),
     PackageFrom(1, 2, 0, <<1, 1>>, <<2>>,
                 <<<<[shape_type |-> "UNSUPPORTED", part |-> "", extract_ok |-> TRUE,
                      width |-> 9144000, height |-> 6858000]>>>>),
     PackageFrom(1, 1, 0, <<1>>, <<>>, <<>>)}

MainPaths == {GoodPath, [dir |-> "work", name |-> <<"a", ".", "p", "p", "t">>]}

----------------------------------------------------------------------------
(* Specifications.  Each one runs one engine; the variables of the other   *)
(* engines stay at their idle values.                                      *)

InitMediaOver(S) ==
    /\ IsDeckOver(deck, S)
    /\ include_shared_media \in BOOLEAN
    /\ pc = "discover"
    /\ slide_idx = FirstPos(deck)[1]
    /\ shape_idx = FirstPos(deck)[2]
    /\ media_registry = EmptyMap
    /\ slide_media_map = EmptyMap
    /\ results = <<>>

InitMedia == InitMediaOver(Shapes)

IdleMedia ==
    /\ deck = <<>>
    /\ include_shared_media = FALSE
    /\ pc = "idle"
    /\ slide_idx = 1
    /\ shape_idx = 1
    /\ media_registry = EmptyMap
    /\ slide_media_map = EmptyMap
    /\ results = <<>>

InitImg ==
    /\ image \in ImagesIn
    /\ shape \in ShapesIn
    /\ img_pc = "start"
    /\ dimensions = NoDimensions
    /\ opportunities = <<>>

IdleImg ==
    /\ image = [format |-> "", content_type |-> "", current_bytes |-> 0,
                pixel_width |-> 0, pixel_height |-> 0]
    /\ shape = [width |-> 0, height |-> 0]
    /\ img_pc = "idle"
    /\ dimensions = NoDimensions
    /\ opportunities = <<>>

InitOpt ==
    /\ IsDeckOver(opt_deck, OptShapes)
    /\ opt_pc = "collect"
    /\ opt_slide = FirstPos(opt_deck)[1]
    /\ opt_shape = FirstPos(opt_deck)[2]
    /\ opt_registry = EmptyMap
    /\ slide_shapes_map = EnterSlides(EmptyMap, 0, FirstPos(opt_deck)[1], Len(opt_deck))
    /\ all_opportunities = <<>>
    /\ analysis_log = <<>>

IdleOpt ==
    /\ opt_deck = <<>>
    /\ opt_pc = "idle"
    /\ opt_slide = 1
    /\ opt_shape = 1
    /\ opt_registry = EmptyMap
    /\ slide_shapes_map = EmptyMap
    /\ all_opportunities = <<>>
    /\ analysis_log = <<>>

\* a call of analyze_pptx_media with a path: nothing scanned yet
InitMediaCall ==
    /\ deck = <<>>
    /\ include_shared_media \in BOOLEAN
    /\ pc = "idle"
    /\ slide_idx = 1
    /\ shape_idx = 1
    /\ media_registry = EmptyMap
    /\ slide_media_map = EmptyMap
    /\ results = <<>>

InitCall ==
    /\ pkg_pc = "call"
    /\ raised = "none"
    /\ io_log = <<>>
    /\ masters_report = NoReport
    /\ delete_result = NoResult

\* any path of the model, holding nothing, unparseable bytes or a package
InitPkgMedia ==
    /\ op = "media"
    /\ path \in Paths
    /\ \E src \in {Absent, Garbage} \cup MediaPackages : fs = FilesWith(path, src, Absent)
    /\ InitCall

\* either any path with one of three contents (and possibly an older file
\* where the cleaned copy goes), or, at a good path, any package of at most
\* MaxMasters masters, MaxLayouts layouts and MaxSlides slides
InitPkgMasters ==
    /\ op \in {"masters", "delete"}
    /\ \/ /\ path \in Paths
          /\ \E src \in {Absent, Garbage, SamplePackage} :
                \E old \in {Absent, SamplePackage} : fs = FilesWith(path, src, old)
       \/ /\ path = GoodPath
          /\ \E n \in 1..MaxMasters : \E k \in 0..MaxLayouts :
                \E r \in 0..(Len(LayoutKinds) - 1) : \E at \in [1..k -> 1..n] :
                   \E s \in 0..MaxSlides : \E refs \in [1..s -> 1..k] :
                      /\ NonDecreasing(at)
                      /\ fs = FilesWith(path,
                                        PackageFrom(n, k, r, at, refs, [i \in 1..s |-> <<>>]),
                                        Absent)
    /\ InitCall

IdlePkg ==
    /\ fs = [q \in AllPaths |-> Absent]
    /\ path = [dir |-> "", name |-> <<>>]
    /\ op = "none"
    /\ pkg_pc = "idle"
    /\ raised = "none"
    /\ io_log = <<>>
    /\ masters_report = NoReport
    /\ delete_result = NoResult

IdleMain ==
    /\ argv = [delete_unused_layouts |-> FALSE, masters_report |-> FALSE,
               optimization_report |-> FALSE, top |-> [given |-> FALSE, n |-> 0],
               output_json |-> "", output_csv |-> ""]
    /\ main_pc = "idle"
    /\ out = <<>>
    /\ exit_code = -1

IdleFormat ==
    /\ num_bytes = ByteCount(0)
    /\ fmt_pc = "idle"
    /\ formatted = ""

IdleCli == IdleMain /\ IdleFormat

\* analyze_pptx_media on an opened presentation
Init == InitMedia /\ IdleImg /\ IdleOpt /\ IdlePkg /\ IdleCli

Next ==
    \/ RegisterPicture
    \/ RegisterMedia
    \/ ExtractionFails
    \/ IgnoreShape
    \/ AttributeAndReturn

Spec == Init /\ [][Next]_vars

\* get_image_dimensions and analyze_image_optimization
ImgInit == IdleMedia /\ InitImg /\ IdleOpt /\ IdlePkg /\ IdleCli

ImgNext ==
    \/ MeasureImage
    \/ AnalyzeImage

SpecImg == ImgInit /\ [][ImgNext]_vars

\* analyze_optimization_opportunities
OptInit == IdleMedia /\ IdleImg /\ InitOpt /\ IdlePkg /\ IdleCli

OptNext ==
    \/ CollectPicture
    \/ CollectFails
    \/ CollectIgnore
    \/ AnalyzeAndReturn

SpecOpt == OptInit /\ [][OptNext]_vars

\* analyze_pptx_media called with a path
FileInit == InitMediaCall /\ IdleImg /\ IdleOpt /\ InitPkgMedia /\ IdleCli

FileNext ==
    \/ RaiseNotFound
    \/ RaiseUnsupportedType
    \/ RaiseCorruptInput
    \/ OpenPresentation
    \/ RegisterPicture
    \/ RegisterMedia
    \/ ExtractionFails
    \/ IgnoreShape
    \/ AttributeAndReturn

SpecFile == FileInit /\ [][FileNext]_vars

\* analyze_slide_masters and delete_unused_layouts
MastersInit == IdleMedia /\ IdleImg /\ IdleOpt /\ InitPkgMasters /\ IdleCli

MastersNext ==
    \/ AnalyzeSlideMastersRaises
    \/ AnalyzeSlideMasters
    \/ DeleteUnusedLayoutsRaises
    \/ DeleteUnusedLayouts
    \/ DeleteSaveFails
    \/ RunOnCleanedCopy

SpecMasters == MastersInit /\ [][MastersNext]_vars

\* the discovery passes of both scans, on decks that mix readable and
\* unreadable shapes
RegistryInit ==
    \/ InitMediaOver(RegistryShapes) /\ IdleImg /\ IdleOpt /\ IdlePkg /\ IdleCli
    \/ OptInit

RegistryNext ==
    \/ RegisterPicture
    \/ RegisterMedia
    \/ ExtractionFails
    \/ IgnoreShape
    \/ AttributeAndReturn
    \/ CollectPicture
    \/ CollectFails
    \/ CollectIgnore
    \/ AnalyzeAndReturn

SpecRegistry == RegistryInit /\ [][RegistryNext]_vars

\* format_bytes on one byte count
FormatInit ==
    /\ IdleMedia /\ IdleImg /\ IdleOpt /\ IdlePkg /\ IdleMain
    /\ num_bytes \in ByteCounts
    /\ fmt_pc = "call"
    /\ formatted = ""

FormatNext == FormatBytesCall

SpecFormat == FormatInit /\ [][FormatNext]_vars

\* main on a parsed command line, with the engines and writers it calls
MainInit ==
    /\ InitMediaCall /\ IdleImg /\ IdleOpt /\ IdleFormat
    /\ path \in MainPaths
    /\ \E src \in {Absent, Garbage} \cup MainPackages : fs = FilesWith(path, src, Absent)
    /\ op = "none"
    /\ pkg_pc = "idle"
    /\ raised = "none"
    /\ io_log = <<>>
    /\ masters_report = NoReport
    /\ delete_result = NoResult
    /\ argv \in ArgSets
    /\ main_pc = "start"
    /\ out = <<>>
    /\ exit_code = -1

MainNext ==
    \/ MainSelectMode
    \/ RaiseNotFound
    \/ RaiseUnsupportedType
    \/ RaiseCorruptInput
    \/ OpenPresentation
    \/ RegisterPicture
    \/ RegisterMedia
    \/ ExtractionFails
    \/ IgnoreShape
    \/ ShapeTypeRaises
    \/ AttributeAndReturn
    \/ MainPrintConsole
    \/ MainWriteJson
    \/ MainWriteCsv
    \/ AnalyzeSlideMastersRaises
    \/ AnalyzeSlideMasters
    \/ MainPrintMastersReport
    \/ MainDeleteUnused
    \/ MainNothingToDelete
    \/ DeleteUnusedLayouts
    \/ DeleteSaveFails
    \/ MainCleanupComplete
    \/ OptimizationRaises
    \/ OpenForOptimization
    \/ CollectPicture
    \/ CollectFails
    \/ CollectIgnore
    \/ AnalyzeAndReturn
    \/ MainPrintOptimization
    \/ MainReturns
    \/ MainReportsError

SpecMain == MainInit /\ [][MainNext]_vars

----------------------------------------------------------------------------
(* What the deck itself says, read off the input without the registry:     *)
(* the references a scan should find, and where each asset appears.        *)

IsMediaShape(sh) == sh.shape_type \in {"PICTURE", "MEDIA"} /\ sh.extract_ok

\* the classified references of slide i, in shape order
DeckRefs(i) == SelectSeq(deck[i], IsMediaShape)

\* every (slide, position) of a classified reference
DeckRefPositions == {<<i, j>> \in (1..Len(deck)) \X (1..MaxShapes + 1) : j <= Len(DeckRefs(i))}

AssetAt(pos) == DeckRefs(pos[1])[pos[2]].part

DeckAssets == {AssetAt(pos) : pos \in DeckRefPositions}

AppearancesOf(a) == {pos \in DeckRefPositions : AssetAt(pos) = a}

SlidesOf(a) == {pos[1] : pos \in AppearancesOf(a)}

LowestSlideOf(a) == CHOOSE i \in SlidesOf(a) : \A k \in SlidesOf(a) : i <= k

SharedInDeck(a) == Cardinality(AppearancesOf(a)) > 1

Done == pc = "done"

\* the record of slide i in the returned list
RecordsOf(i) == {k \in 1..Len(results) : results[k].slide_index = i}
StatsOfSlide(i) == results[CHOOSE k \in RecordsOf(i) : TRUE]

\* the MediaItem built for the reference at pos
ItemAt(pos) == StatsOfSlide(pos[1]).media_items[pos[2]]

Complete == Done /\ \A i \in 1..Len(deck) :
                        RecordsOf(i) # {} /\ Len(StatsOfSlide(i).media_items) = Len(DeckRefs(i))

\* slides that carry exactly one reference, and that one to image blob b
OnlyCarries(i, b) ==
    /\ Len(DeckRefs(i)) = 1
    /\ DeckRefs(i)[1].shape_type = "PICTURE"
    /\ DeckRefs(i)[1].part = b

----------------------------------------------------------------------------
(* Claims about analyze_pptx_media *)

\* C1: with include_shared_media = False every reference to a shared asset
\* (more than one appearance) is charged the full blob size on the asset's
\* first slide, the lowest slide among its appearances, and 0 on every other
\* slide; when N >= 2 slides carry one reference each to the same image and
\* nothing else, exactly the lowest of them has nonzero total_media_bytes.
C1_SharedChargedOnFirstSlideOnly ==
    (Done /\ ~include_shared_media) =>
        /\ Complete
        /\ \A pos \in DeckRefPositions :
              LET a == AssetAt(pos) IN
              SharedInDeck(a) =>
                  ItemAt(pos).size_bytes =
                      IF pos[1] = LowestSlideOf(a) THEN BlobSize(a) ELSE 0
        /\ \A b \in ImageBlobs :
              (Len(deck) >= 2 /\ \A i \in 1..Len(deck) : OnlyCarries(i, b)) =>
                  {i \in 1..Len(deck) : StatsOfSlide(i).total_media_bytes # 0} = {1}

C1_Witness ==
    /\ Done /\ ~include_shared_media
    /\ Len(deck) = 3
    /\ \A i \in 1..3 : OnlyCarries(i, "imgA")
    /\ Len(results) = 3
    /\ results[1].slide_index = 1 /\ results[1].total_media_bytes = 1200000
    /\ results[2].total_media_bytes = 0 /\ results[3].total_media_bytes = 0

\* C2: a reference is charged the exact byte length of its blob whenever
\* include_shared_media is True or the asset appears once; so with the
\* policy on, every slide referencing a shared asset reports the same nonzero
\* size for it, and a slide holding one unshared image has
\* total_media_bytes = image_bytes = the blob's length.
C2_FullSizeWhenIncludedOrUnshared ==
    Done =>
        /\ Complete
        /\ \A pos \in DeckRefPositions :
              LET a == AssetAt(pos) IN
              (include_shared_media \/ ~SharedInDeck(a)) =>
                  /\ ItemAt(pos).size_bytes = BlobSize(a)
                  /\ ItemAt(pos).size_bytes > 0
        /\ \A i \in 1..Len(deck) : \A b \in ImageBlobs :
              (OnlyCarries(i, b) /\ ~SharedInDeck(b)) =>
                  /\ StatsOfSlide(i).total_media_bytes = BlobSize(b)
                  /\ StatsOfSlide(i).image_bytes = BlobSize(b)

C2_Witness ==
    /\ Done /\ include_shared_media
    /\ Len(deck) = 3
    /\ OnlyCarries(1, "imgB") /\ OnlyCarries(2, "imgA") /\ OnlyCarries(3, "imgA")
    /\ \A k \in 1..3 : results[k].slide_index = 3 =>
           results[k].media_items[1].size_bytes = 1200000

\* C3: with include_shared_media = False the items that refer to one asset
\* sum, over the whole deck, to the asset's byte size exactly once, however
\* its references are spread over slides (several on one slide included).
C3_AssetCountedExactlyOnce ==
    (Done /\ ~include_shared_media) =>
        \A a \in DeckAssets :
            LET refs == AppearancesOf(a)
                charged == {pos \in refs : ItemAt(pos).size_bytes # 0}
            IN  /\ Cardinality(charged) = 1
                /\ \A pos \in charged : ItemAt(pos).size_bytes = BlobSize(a)

\* C4: MediaItem.shared is true iff the asset has more than one appearance,
\* every shape reference counting (also repeats on one slide); the flag is
\* the same under either policy and is true on items whose bytes were zeroed.
C4_SharedFlagIsAppearanceCount ==
    Done =>
        /\ Complete
        /\ \A pos \in DeckRefPositions :
              LET a == AssetAt(pos)
                  other == SlideStatsOf(pos[1], MapGet(slide_media_map, pos[1]),
                                        media_registry, ~include_shared_media)
              IN  /\ ItemAt(pos).shared = (Cardinality(AppearancesOf(a)) > 1)
                  /\ ItemAt(pos).shared = (Len(media_registry[
                         MapGet(slide_media_map, pos[1])[pos[2]].media_key].slides) > 1)
                  /\ other.media_items[pos[2]].shared = ItemAt(pos).shared
                  /\ (ItemAt(pos).size_bytes = 0 => ItemAt(pos).shared)

\* one asset referenced twice on a single slide and nowhere else, and a
\* zeroed item elsewhere in the state space
C4_Witness ==
    /\ Done
    /\ Len(deck) = 1 /\ Len(DeckRefs(1)) = 2
    /\ AssetAt(<<1, 1>>) = AssetAt(<<1, 2>>)
    /\ results[1].media_items[1].shared /\ results[1].media_items[2].shared

\* C5: in every record total_media_bytes is the sum of the four typed
\* totals, and each typed total is the sum of the attributed size_bytes of
\* the record's items of that type.
RECURSIVE ItemBytesOfType(_, _)
ItemBytesOfType(items, type) ==
    IF items = <<>> THEN 0
    ELSE (IF items[1].type = type THEN items[1].size_bytes ELSE 0)
         + ItemBytesOfType(Tail(items), type)

C5_TotalsAreSumsOfItems ==
    \A k \in 1..Len(results) :
        LET r == results[k] IN
        /\ r.total_media_bytes =
               r.image_bytes + r.video_bytes + r.audio_bytes + r.other_media_bytes
        /\ r.image_bytes = ItemBytesOfType(r.media_items, "image")
        /\ r.video_bytes = ItemBytesOfType(r.media_items, "video")
        /\ r.audio_bytes = ItemBytesOfType(r.media_items, "audio")
        /\ r.other_media_bytes = ItemBytesOfType(r.media_items, "other")
        /\ \A j \in 1..Len(r.media_items) :
               r.media_items[j].type \in {"image", "video", "audio", "other"}

C5_Witness ==
    /\ Done
    /\ \E k \in 1..Len(results) :
          /\ results[k].image_bytes > 0
          /\ results[k].other_media_bytes > 0
          /\ results[k].video_bytes > 0
          /\ results[k].total_media_bytes = 1200000 + 70 + 5000000

\* C6: the result holds exactly one record per slide of the deck, under
\* either policy; a slide without classified media is present with all five
\* totals 0 and an empty media_items list.
C6_OneRecordPerSlide ==
    Done =>
        /\ Len(results) = Len(deck)
        /\ \A i \in 1..Len(deck) : Cardinality(RecordsOf(i)) = 1
        /\ \A k \in 1..Len(results) : results[k].slide_index \in 1..Len(deck)
        /\ \A i \in 1..Len(deck) :
              DeckRefs(i) = <<>> =>
                  /\ StatsOfSlide(i).media_items = <<>>
                  /\ StatsOfSlide(i).total_media_bytes = 0
                  /\ StatsOfSlide(i).image_bytes = 0
                  /\ StatsOfSlide(i).video_bytes = 0
                  /\ StatsOfSlide(i).audio_bytes = 0
                  /\ StatsOfSlide(i).other_media_bytes = 0

C6_Witness ==
    /\ Done
    /\ Len(deck) = 3
    /\ DeckRefs(1) = <<>> /\ DeckRefs(2) # <<>> /\ DeckRefs(3) = <<>>
    /\ Len(deck[3]) > 0
    /\ Len(results) = 3

\* C7: the returned list is ordered by total_media_bytes non-increasing, and
\* records with equal total_media_bytes are in ascending slide_index order.
C7_SortedDescendingStable ==
    Done =>
        \A k \in 1..Len(results) : \A l \in 1..Len(results) :
            k < l =>
                /\ results[k].total_media_bytes >= results[l].total_media_bytes
                /\ (results[k].total_media_bytes = results[l].total_media_bytes
                        => results[k].slide_index < results[l].slide_index)

C7_Witness ==
    /\ Done
    /\ Len(results) = 3
    /\ results[1].slide_index = 3
    /\ results[2].slide_index = 1 /\ results[3].slide_index = 2
    /\ results[2].total_media_bytes = results[3].total_media_bytes
    /\ results[2].total_media_bytes > 0

----------------------------------------------------------------------------
(* Claims about analyze_optimization_opportunities *)

OptDone == opt_pc = "done"

\* C8: every distinct image asset is analysed at most once over the whole
\* deck, however many picture shapes reference it and wherever they sit, so
\* no two opportunities of one type stem from the same asset.
C8_EachAssetAnalyzedOnce ==
    OptDone =>
        \A k \in 1..Len(analysis_log) : \A l \in 1..Len(analysis_log) :
            k # l =>
                /\ analysis_log[k].media_key # analysis_log[l].media_key
                /\ \A a \in 1..Len(analysis_log[k].opportunities) :
                   \A b \in 1..Len(analysis_log[l].opportunities) :
                       analysis_log[k].media_key = analysis_log[l].media_key =>
                           analysis_log[k].opportunities[a].opportunity_type #
                               analysis_log[l].opportunities[b].opportunity_type

----------------------------------------------------------------------------
(* Claims about analyze_image_optimization *)

Analyzed == img_pc = "analyzed"

\* the oversized-resolution condition, read off the inputs
RatioAbove(n, d) ==
    /\ dimensions.display_width_px > 0
    /\ dimensions.display_height_px > 0
    /\ \/ d * image.pixel_width > n * dimensions.display_width_px
       \/ d * image.pixel_height > n * dimensions.display_height_px

OpportunitiesOfType(type) ==
    {k \in 1..Len(opportunities) : opportunities[k].opportunity_type = type}

\* C9: the list never holds both an oversized_resolution and an
\* absolute_size opportunity; absolute_size is appended iff the longer pixel
\* edge exceeds 3200 and the oversized-resolution check did not fire.
C9_AbsoluteSizeIffLargeAndNotOversized ==
    Analyzed =>
        /\ ~(OpportunitiesOfType("oversized_resolution") # {}
             /\ OpportunitiesOfType("absolute_size") # {})
        /\ Cardinality(OpportunitiesOfType("absolute_size")) =
               IF (image.pixel_width > 3200 \/ image.pixel_height > 3200)
                  /\ ~RatioAbove(5, 2)
               THEN 1 ELSE 0

\* a 4000 px image shown at 100 px: oversized fires, absolute_size is held back
C9_Witness ==
    /\ Analyzed
    /\ image.pixel_width = 4000 /\ dimensions.display_width_px = 100
    /\ OpportunitiesOfType("oversized_resolution") # {}
    /\ OpportunitiesOfType("absolute_size") = {}

\* C10: the oversized-resolution check fires iff resolution_ratio > 2.5,
\* where the ratio is max(pixel_width/display_width_px,
\* pixel_height/display_height_px) if both display extents are > 0 and 1.0
\* otherwise (a display extent that truncates to 0 px is never flagged);
\* the severity is high iff the ratio is > 5, else medium.
C10_OversizedIffRatioAboveTwoAndAHalf ==
    Analyzed =>
        /\ dimensions.display_width_px * 914400 <= shape.width * 96
        /\ shape.width * 96 < (dimensions.display_width_px + 1) * 914400
        /\ dimensions.display_height_px * 914400 <= shape.height * 96
        /\ shape.height * 96 < (dimensions.display_height_px + 1) * 914400
        /\ Cardinality(OpportunitiesOfType("oversized_resolution")) =
               IF RatioAbove(5, 2) THEN 1 ELSE 0
        /\ \A k \in OpportunitiesOfType("oversized_resolution") :
               opportunities[k].severity = IF RatioAbove(5, 1) THEN "high" ELSE "medium"
        /\ (dimensions.display_width_px = 0 \/ dimensions.display_height_px = 0) =>
               /\ dimensions.resolution_ratio.num = dimensions.resolution_ratio.den
               /\ OpportunitiesOfType("oversized_resolution") = {}

\* a ratio of exactly 5 on the wider axis: flagged, and only medium
C10_Witness ==
    /\ Analyzed
    /\ image.pixel_width = 500 /\ dimensions.display_width_px = 100
    /\ image.pixel_height = 250 /\ dimensions.display_height_px = 100
    /\ \E k \in OpportunitiesOfType("oversized_resolution") :
           opportunities[k].severity = "medium"

\* C11: when the oversized-resolution check fires, the recommended size is
\* the aspect-preserving fit of the image in the box of twice the display
\* size: one axis is exactly twice its display extent, the other is the floor
\* of the value the pixel aspect ratio derives from it and stays within twice
\* its display extent; potential_bytes is the floor of
\* current_bytes * (recommended area) / (pixel area), and savings_bytes is
\* current_bytes - potential_bytes.
C11_OversizedFitAndProportionalBytes ==
    Analyzed =>
        \A k \in OpportunitiesOfType("oversized_resolution") :
            LET o  == opportunities[k]
                w2 == 2 * dimensions.display_width_px
                h2 == 2 * dimensions.display_height_px
                pw == image.pixel_width
                ph == image.pixel_height
            IN  /\ \/ /\ o.recommended_width = w2
                      /\ o.recommended_height = MulDiv(w2, ph, pw)
                      /\ o.recommended_height <= h2
                   \/ /\ o.recommended_height = h2
                      /\ o.recommended_width = MulDiv(h2, pw, ph)
                      /\ o.recommended_width <= w2
                /\ o.potential_bytes =
                       MulDiv(image.current_bytes,
                              o.recommended_width * o.recommended_height, pw * ph)
                /\ o.savings_bytes = image.current_bytes - o.potential_bytes

\* C12: an absolute_size opportunity is produced only for an image whose
\* longer pixel edge is strictly above 3200 (an edge of exactly 3200 is not
\* flagged); it caps the longer edge at exactly 2560 and sets the other edge
\* to floor(2560 * shorter / longer), both 2560 for a square image;
\* potential_bytes is the floor of current_bytes * (recommended area) /
\* (pixel area), and the severity is always medium.
C12_AbsoluteCapAndProportionalBytes ==
    Analyzed =>
        LET pw == image.pixel_width
            ph == image.pixel_height
        IN  /\ Max(pw, ph) <= 3200 => OpportunitiesOfType("absolute_size") = {}
            /\ \A k \in OpportunitiesOfType("absolute_size") :
                  LET o == opportunities[k] IN
                  /\ Max(pw, ph) > 3200
                  /\ pw >= ph => /\ o.recommended_width = 2560
                                 /\ o.recommended_height = MulDiv(2560, ph, pw)
                  /\ ph >= pw => /\ o.recommended_height = 2560
                                 /\ o.recommended_width = MulDiv(2560, pw, ph)
                  /\ o.potential_bytes =
                         MulDiv(image.current_bytes,
                                o.recommended_width * o.recommended_height, pw * ph)
                  /\ o.severity = "medium"

\* C13: a png_photo opportunity is appended iff the detected format is PNG
\* and current_bytes is strictly above 1,000,000, whatever the resolution
\* checks did; then potential_bytes = floor(0.3 * current_bytes),
\* savings_bytes = current_bytes - potential_bytes, the recommended
\* dimensions are the current pixel dimensions, and the severity is medium
\* iff current_bytes is strictly above 3,000,000, else low.
C13_PngPhotoIffLargePng ==
    Analyzed =>
        /\ Cardinality(OpportunitiesOfType("png_photo")) =
               IF image.format = "PNG" /\ image.current_bytes > 1000000 THEN 1 ELSE 0
        /\ \A k \in OpportunitiesOfType("png_photo") :
              LET o == opportunities[k] IN
              /\ 10 * o.potential_bytes <= 3 * image.current_bytes
              /\ 3 * image.current_bytes < 10 * (o.potential_bytes + 1)
              /\ o.savings_bytes = image.current_bytes - o.potential_bytes
              /\ o.recommended_width = image.pixel_width
              /\ o.recommended_height = image.pixel_height
              /\ o.severity = IF image.current_bytes > 3000000 THEN "medium" ELSE "low"

\* a PNG one byte above the threshold that is also oversized: both
\* opportunities in one list, the png_photo one low and sized 300000
C13_Witness ==
    /\ Analyzed
    /\ image.format = "PNG" /\ image.current_bytes = 1000001
    /\ OpportunitiesOfType("oversized_resolution") # {}
    /\ \E k \in OpportunitiesOfType("png_photo") :
          /\ opportunities[k].potential_bytes = 300000
          /\ opportunities[k].savings_bytes = 700001
          /\ opportunities[k].severity = "low"

\* C14: an uncompressed_jpeg opportunity is appended iff the detected format
\* is JPEG and current_bytes is strictly above pixel_width * pixel_height
\* (more than 1.0 byte per pixel); then potential_bytes =
\* floor(0.5 * current_bytes), savings_bytes = current_bytes -
\* potential_bytes, and the severity is always low.
C14_UncompressedJpegIffAboveOneBytePerPixel ==
    Analyzed =>
        /\ Cardinality(OpportunitiesOfType("uncompressed_jpeg")) =
               IF image.format = "JPEG"
                  /\ image.current_bytes > image.pixel_width * image.pixel_height
               THEN 1 ELSE 0
        /\ \A k \in OpportunitiesOfType("uncompressed_jpeg") :
              LET o == opportunities[k] IN
              /\ 2 * o.potential_bytes <= image.current_bytes
              /\ image.current_bytes < 2 * (o.potential_bytes + 1)
              /\ o.savings_bytes = image.current_bytes - o.potential_bytes
              /\ o.severity = "low"

\* a JPEG of 1000001 bytes on 1000000 pixels (250 x 4000): just above one
\* byte per pixel, flagged with an estimate of 500000 bytes
C14_Witness ==
    /\ Analyzed
    /\ image.format = "JPEG" /\ image.current_bytes = 1000001
    /\ image.pixel_width * image.pixel_height = 1000000
    /\ \E k \in OpportunitiesOfType("uncompressed_jpeg") :
          /\ opportunities[k].potential_bytes = 500000
          /\ opportunities[k].savings_bytes = 500001
          /\ opportunities[k].severity = "low"

----------------------------------------------------------------------------
(* Claims about the returned opportunity list *)

\* the opportunities the per-image analyses returned, in discovery order
RECURSIVE ProducedFrom(_)
ProducedFrom(log) ==
    IF log = <<>> THEN <<>> ELSE log[1].opportunities \o ProducedFrom(Tail(log))

Produced == ProducedFrom(analysis_log)

Occurrences(list, o) == Cardinality({k \in 1..Len(list) : list[k] = o})

WithSavings(list, v) ==
    LET Has(o) == o.savings_bytes = v IN SelectSeq(list, Has)

\* C15: the returned list is ordered by savings_bytes non-increasing across
\* all slides, assets and opportunity types; it holds exactly the
\* opportunities the per-image analyses produced, each as often as it was
\* produced; and opportunities with equal savings keep their discovery order
\* (slide order, then check order).
C15_SortedBySavingsStablePermutation ==
    OptDone =>
        /\ \A k \in 1..Len(all_opportunities) : \A l \in 1..Len(all_opportunities) :
              k < l =>
                  /\ all_opportunities[k].savings_bytes >= all_opportunities[l].savings_bytes
                  /\ (all_opportunities[k].savings_bytes = all_opportunities[l].savings_bytes
                          => all_opportunities[k].slide_index <= all_opportunities[l].slide_index)
        /\ Len(all_opportunities) = Len(Produced)
        /\ \A k \in 1..Len(Produced) :
              /\ Occurrences(all_opportunities, Produced[k]) = Occurrences(Produced, Produced[k])
              /\ WithSavings(all_opportunities, Produced[k].savings_bytes) =
                     WithSavings(Produced, Produced[k].savings_bytes)

\* one slide with the large PNG on a hairline shape and then on a full-slide
\* shape: absolute_size (708480) and png_photo (840000) for the first,
\* oversized_resolution (923520) and png_photo (840000) for the second; the
\* sort moves the largest saving to the front and the smallest to the end,
\* and the two equal png_photo entries stay in shape order
C15_Witness ==
    /\ OptDone
    /\ Len(Produced) = 4
    /\ Produced[1].opportunity_type = "absolute_size"
    /\ Produced[2].display_width_px = 0
    /\ Len(all_opportunities) = 4
    /\ all_opportunities[1].opportunity_type = "oversized_resolution"
    /\ all_opportunities[2].opportunity_type = "png_photo"
    /\ all_opportunities[2].display_width_px = 0
    /\ all_opportunities[3].opportunity_type = "png_photo"
    /\ all_opportunities[3].display_width_px = 960
    /\ all_opportunities[2].savings_bytes = all_opportunities[3].savings_bytes
    /\ all_opportunities[4].opportunity_type = "absolute_size"

----------------------------------------------------------------------------
(* Claims about analyze_slide_masters and delete_unused_layouts *)

Returned(f) == op = f /\ pkg_pc = "returned"

\* <<master, position>> of every layout of a package
LayoutPositions(pkg) ==
    UNION {{<<m, j>> : j \in 1..Len(pkg.masters[m].layouts)} : m \in 1..Len(pkg.masters)}

\* the slides of the package whose layout relationship targets the layout
\* part at position mj
SlidesReferencing(pkg, mj) ==
    {i \in 1..Len(pkg.slides) :
        pkg.slides[i].layout = pkg.masters[mj[1]].layouts[mj[2]].id}

StatAt(mj) == masters_report.masters[mj[1]].layouts[mj[2]]

\* C16: in the report of analyze_slide_masters every layout of every master
\* has is_used true iff at least one slide's layout reference resolves to
\* that very layout object (two layouts of one name are told apart), and
\* slides_using is exactly the ascending list of the 1-based indices of the
\* slides referencing it; a layout no slide references has is_used false and
\* an empty slides_using.
C16_UsageByLayoutIdentity ==
    Returned("masters") =>
        LET pkg == fs[path] IN
        /\ Len(masters_report.masters) = Len(pkg.masters)
        /\ \A m \in 1..Len(pkg.masters) :
              Len(masters_report.masters[m].layouts) = Len(pkg.masters[m].layouts)
        /\ \A mj \in LayoutPositions(pkg) :
              LET users == SlidesReferencing(pkg, mj)
                  using == StatAt(mj).slides_using
              IN  /\ StatAt(mj).is_used = (users # {})
                  /\ Len(using) = Cardinality(users)
                  /\ \A a \in 1..Len(using) : using[a] \in users
                  /\ \A a \in 1..Len(using) : \A b \in 1..Len(using) :
                         a < b => using[a] < using[b]
                  /\ (users = {} => ~StatAt(mj).is_used /\ using = <<>>)

\* two layouts named "Title": the one of master 2 is used by slides 1 and 3,
\* the one of master 1 by no slide
C16_Witness ==
    /\ Returned("masters")
    /\ Len(masters_report.masters) = 2
    /\ Len(masters_report.masters[1].layouts) = 1
    /\ Len(masters_report.masters[2].layouts) = 2
    /\ StatAt(<<1, 1>>).layout_name = "Title"
    /\ ~StatAt(<<1, 1>>).is_used
    /\ StatAt(<<2, 2>>).layout_name = "Title"
    /\ StatAt(<<2, 2>>).slides_using = <<1, 3>>
    /\ StatAt(<<2, 1>>).slides_using = <<2>>

LayoutIds(pkg) == {pkg.masters[mj[1]].layouts[mj[2]].id : mj \in LayoutPositions(pkg)}

LayoutCount(pkg) == Cardinality(LayoutPositions(pkg))

\* C17: the layouts delete_unused_layouts removes from their masters' lists
\* are exactly the layouts analyze_slide_masters flags is_used = false on
\* the same deck: layouts_deleted equals the report's unused_layouts, the
\* saved document has the original layout count minus that number, and no
\* layout a slide references is removed.
C17_DeletesExactlyTheUnusedLayouts ==
    Returned("delete") =>
        LET src == fs[path]
            saved == fs[delete_result.output_path]
            report == MastersReport(src)
            flagged == {src.masters[mj[1]].layouts[mj[2]].id :
                           mj \in {p \in LayoutPositions(src) :
                                      ~report.masters[p[1]].layouts[p[2]].is_used}}
        IN  /\ saved.kind = "pptx"
            /\ LayoutIds(src) \ LayoutIds(saved) = flagged
            /\ LayoutIds(saved) \subseteq LayoutIds(src)
            /\ delete_result.layouts_deleted = report.unused_layouts
            /\ LayoutCount(saved) = LayoutCount(src) - delete_result.layouts_deleted
            /\ LayoutCount(src) = report.total_layouts
            /\ \A i \in 1..Len(src.slides) : src.slides[i].layout \in LayoutIds(saved)
            /\ saved.slides = src.slides

\* three layouts of which two are unused: two deleted, and the one that is
\* left is the one the slides reference
C17_Witness ==
    /\ Returned("delete")
    /\ LayoutCount(fs[path]) = 3
    /\ Len(fs[path].slides) = 2
    /\ delete_result.layouts_deleted = 2
    /\ LayoutCount(fs[delete_result.output_path]) = 1
    /\ LayoutIds(fs[delete_result.output_path]) = {fs[path].slides[1].layout}

\* the operations of the log that write a file
SavesIn(log) == {log[k][2] : k \in {x \in 1..Len(log) : log[x][1] = "save"}}

CleanedPathOf(p) == [dir |-> p.dir, name |-> Stem(p.name) \o CleanedTag \o Suffix(p.name)]

\* C18: delete_unused_layouts never writes to its input path: the only file
\* it writes is the output path, the input's stem with "_cleaned" appended in
\* the same directory and with the same suffix, which differs from the input
\* path for every input; the source document on disk is unchanged after the
\* call, whether it returns (also with zero layouts deleted) or raises.
C18_SourceUntouchedOutputIsCleanedPath ==
    /\ [](op = "delete" =>
             /\ \A p \in Paths : CleanedPathOf(p) # p
             /\ SavesIn(io_log) \subseteq {CleanedPathOf(path)}
             /\ path \notin SavesIn(io_log)
             /\ (pkg_pc = "returned" =>
                    /\ delete_result.output_path = CleanedPathOf(path)
                    /\ SavesIn(io_log) = {CleanedPathOf(path)}))
    /\ [][op = "delete" =>
             /\ fs'[path] = fs[path]
             /\ \A q \in AllPaths : q # CleanedPathOf(path) => fs'[q] = fs[q]]_vars

\* nothing to delete: the copy is still written, next to the source under
\* the cleaned name, and equals the source
C18_Witness ==
    /\ Returned("delete")
    /\ path = [dir |-> "work", name |-> <<"a", ".", "p", "p", "t", "x">>]
    /\ delete_result.layouts_deleted = 0
    /\ delete_result.output_path =
           [dir |-> "work",
            name |-> <<"a", "_", "c", "l", "e", "a", "n", "e", "d", ".", "p", "p", "t", "x">>]
    /\ LayoutCount(fs[path]) = 2
    /\ fs[delete_result.output_path] = fs[path]
    /\ io_log[Len(io_log)] = <<"save", delete_result.output_path>>

\* the LayoutMediaStats of the whole report, master after master
RECURSIVE AllLayoutStats(_)
AllLayoutStats(masters_stats) ==
    IF masters_stats = <<>> THEN <<>>
    ELSE masters_stats[1].layouts \o AllLayoutStats(Tail(masters_stats))

RECURSIVE BytesOfUnused(_)
BytesOfUnused(stats) ==
    IF stats = <<>> THEN 0
    ELSE (IF stats[1].is_used THEN 0 ELSE stats[1].total_media_bytes)
         + BytesOfUnused(Tail(stats))

RECURSIVE BytesOfAll(_)
BytesOfAll(stats) ==
    IF stats = <<>> THEN 0 ELSE stats[1].total_media_bytes + BytesOfAll(Tail(stats))

NotUsed(stat) == ~stat.is_used

\* C19: in the MastersReport unused_layout_media_bytes is the sum of
\* total_media_bytes over exactly the layouts with is_used = false (no using
\* slide), each master's unused_layout_bytes is that sum over its own
\* layouts, unused_layouts is the number of layouts with is_used = false and
\* total_layout_media_bytes the sum over all layouts; so the unused figures
\* never exceed the totals.
C19_UnusedAggregatesAreSumsOverUnused ==
    Returned("masters") =>
        LET all == AllLayoutStats(masters_report.masters) IN
        /\ \A k \in 1..Len(all) : all[k].is_used = (all[k].slides_using # <<>>)
        /\ masters_report.unused_layout_media_bytes = BytesOfUnused(all)
        /\ \A m \in 1..Len(masters_report.masters) :
              /\ masters_report.masters[m].unused_layout_bytes =
                     BytesOfUnused(masters_report.masters[m].layouts)
              /\ masters_report.masters[m].total_layout_bytes =
                     BytesOfAll(masters_report.masters[m].layouts)
        /\ masters_report.unused_layouts = Len(SelectSeq(all, NotUsed))
        /\ masters_report.total_layouts = Len(all)
        /\ masters_report.total_layout_media_bytes = BytesOfAll(all)
        /\ masters_report.unused_layout_media_bytes <= masters_report.total_layout_media_bytes
        /\ masters_report.unused_layouts <= masters_report.total_layouts

\* three layouts over two masters; the unused one holds 600 bytes of
\* pictures, the two in use 1200000 and 0
C19_Witness ==
    /\ Returned("masters")
    /\ masters_report.total_masters = 2
    /\ masters_report.total_layouts = 3
    /\ masters_report.unused_layouts = 1
    /\ masters_report.unused_layout_media_bytes = 600
    /\ masters_report.total_layout_media_bytes = 1200600
    /\ masters_report.masters[2].unused_layout_bytes = 600
    /\ masters_report.masters[2].total_layout_bytes = 1200600

----------------------------------------------------------------------------
(* Claims about input validation *)

\* ".pptx" in any mix of upper and lower case
IsPptxSuffixAnyCase(s) ==
    /\ Len(s) = 5
    /\ s[1] = "."
    /\ s[2] \in {"p", "P"}
    /\ s[3] \in {"p", "P"}
    /\ s[4] \in {"t", "T"}
    /\ s[5] \in {"x", "X"}

OpsIn(log) == {log[k][1] : k \in 1..Len(log)}

\* C20: input validation of analyze_pptx_media puts every path into exactly
\* one outcome, checked in this order: a path that does not exist raises
\* FileNotFoundError whatever its extension; an existing path whose suffix,
\* compared case-insensitively, is not ".pptx" raises ValueError "unsupported
\* file type" without an attempt to open it; an existing .pptx path that
\* cannot be parsed raises ValueError "failed to open .pptx"; in all three
\* cases no result list is returned.
C20_ValidationOutcomeInOrder ==
    (op = "media" /\ pkg_pc # "call") =>
        /\ IF fs[path].kind = "absent"
           THEN /\ pkg_pc = "raised"
                /\ raised = "FileNotFoundError: file not found"
                /\ "open" \notin OpsIn(io_log)
           ELSE IF ~IsPptxSuffixAnyCase(Suffix(path.name))
           THEN /\ pkg_pc = "raised"
                /\ raised = "ValueError: unsupported file type (expected .pptx)"
                /\ "open" \notin OpsIn(io_log)
           ELSE IF fs[path].kind = "garbage"
           THEN /\ pkg_pc = "raised"
                /\ raised = "ValueError: failed to open .pptx"
           ELSE /\ pkg_pc = "opened"
                /\ raised = "none"
        /\ pkg_pc = "raised" => results = <<>> /\ pc = "idle"

\* an existing file of unparseable bytes under an upper-case suffix: it
\* passes the suffix check and fails on opening
C20_Witness ==
    /\ op = "media" /\ pkg_pc = "raised"
    /\ path.name = <<"a", ".", "P", "P", "T", "X">>
    /\ fs[path].kind = "garbage"
    /\ raised = "ValueError: failed to open .pptx"
    /\ io_log = <<<<"exists", path>>, <<"open", path>>>>

----------------------------------------------------------------------------
(* Claims about the estimates of analyze_image_optimization *)

\* C28: every opportunity analyze_image_optimization produces, of any of
\* the four types, has 0 <= potential_bytes <= current_bytes and
\* savings_bytes = current_bytes - potential_bytes >= 0: no recommendation
\* estimates a size increase.
C28_PotentialBetweenZeroAndCurrent ==
    Analyzed =>
        \A k \in 1..Len(opportunities) :
            LET o == opportunities[k] IN
            /\ o.current_bytes = image.current_bytes
            /\ 0 <= o.potential_bytes
            /\ o.potential_bytes <= o.current_bytes
            /\ o.savings_bytes = o.current_bytes - o.potential_bytes
            /\ o.savings_bytes >= 0

\* a PNG far larger than its display box in width and smaller in height:
\* the oversized estimate and the PNG estimate both lie strictly between 0
\* and the current size
C28_Witness ==
    /\ Analyzed
    /\ image.pixel_width = 4000 /\ image.pixel_height = 250
    /\ dimensions.display_width_px = 100 /\ dimensions.display_height_px = 960
    /\ image.current_bytes = 3000001
    /\ Len(opportunities) = 2
    /\ opportunities[1].opportunity_type = "oversized_resolution"
    /\ opportunities[2].opportunity_type = "png_photo"
    /\ \A k \in 1..2 : /\ opportunities[k].potential_bytes > 0
                       /\ opportunities[k].savings_bytes > 0

\* C29: whenever the oversized-resolution or the absolute-size check
\* produces an opportunity, recommended_width >= 1 and
\* recommended_height >= 1, so that potential_bytes is never forced to 0 by
\* a recommendation of zero area.
C29_RecommendedAtLeastOnePixel ==
    Analyzed =>
        \A k \in OpportunitiesOfType("oversized_resolution")
                     \cup OpportunitiesOfType("absolute_size") :
            /\ opportunities[k].recommended_width >= 1
            /\ opportunities[k].recommended_height >= 1

----------------------------------------------------------------------------
(* Claims about the discovery pass and its registry *)

\* the shapes of slide i the first pass has gone through
ScannedShapes(i) ==
    SubSeq(deck[i], 1, IF i < slide_idx THEN Len(deck[i])
                       ELSE IF i = slide_idx THEN shape_idx - 1
                       ELSE 0)

\* those of them whose media could be read, in shape order
ScannedRefs(i) == SelectSeq(ScannedShapes(i), IsMediaShape)

\* the identity the scan gives a readable shape's content
KeyOfShape(sh) == IF sh.shape_type = "PICTURE" THEN Hash(sh.part) ELSE sh.part

RefsTo(refs, key) == {j \in 1..Len(refs) : KeyOfShape(refs[j]) = key}

EntriesFor(slides, i) == {p \in 1..Len(slides) : slides[p] = i}

ScanRunning == pc \in {"discover", "done"}

\* C21: a shape whose media extraction fails is skipped and never aborts
\* the scan.  At every point of the first pass the reference lists and the
\* registry hold exactly what the readable shapes passed so far contribute
\* (an unreadable shape leaves no asset record and no appearance), the pass
\* can always take its next step, and the function returns one record per
\* slide however many shapes failed.
C21_FailedExtractionIsSkipped ==
    ScanRunning =>
        /\ DOMAIN slide_media_map \subseteq 1..Len(deck)
        /\ \A i \in 1..Len(deck) :
              LET refs == MapGet(slide_media_map, i)
                  read == ScannedRefs(i)
              IN  /\ Len(refs) = Len(read)
                  /\ \A j \in 1..Len(refs) :
                        /\ refs[j].media_key = KeyOfShape(read[j])
                        /\ refs[j].size_bytes = BlobSize(read[j].part)
        /\ DOMAIN media_registry =
               UNION {{KeyOfShape(ScannedRefs(i)[j]) : j \in 1..Len(ScannedRefs(i))} :
                      i \in 1..Len(deck)}
        /\ \A key \in DOMAIN media_registry : \A i \in 1..Len(deck) :
              Cardinality(EntriesFor(media_registry[key].slides, i)) =
                  Cardinality(RefsTo(ScannedRefs(i), key))
        /\ pc = "discover" =>
              ENABLED (RegisterPicture \/ RegisterMedia \/ ExtractionFails
                       \/ IgnoreShape \/ AttributeAndReturn)
        /\ pc = "done" => Len(results) = Len(deck)

\* an unreadable picture in front of a readable one on slide 1 and an
\* unreadable movie alone on slide 2: the result has both slides, the first
\* with the readable picture, the second without media
C21_Witness ==
    /\ pc = "done"
    /\ Len(deck) = 2
    /\ Len(deck[1]) = 2 /\ ~deck[1][1].extract_ok /\ deck[1][2].extract_ok
    /\ deck[1][2].shape_type = "PICTURE"
    /\ Len(deck[2]) = 1 /\ ~deck[2][1].extract_ok /\ deck[2][1].shape_type = "MEDIA"
    /\ Len(results) = 2
    /\ results[1].slide_index = 1 /\ Len(results[1].media_items) = 1
    /\ results[2].slide_index = 2 /\ results[2].media_items = <<>>
    /\ DOMAIN media_registry = {Hash("imgA")}

\* the registry keys recorded for each slide, in the order recorded
MediaKeys ==
    [i \in 1..Len(deck) |->
        [j \in 1..Len(MapGet(slide_media_map, i)) |-> MapGet(slide_media_map, i)[j].media_key]]

OptKeys ==
    [i \in 1..Len(opt_deck) |->
        [j \in 1..Len(MapGet(slide_shapes_map, i)) |-> MapGet(slide_shapes_map, i)[j][2]]]

RECURSIVE AppearanceTotal(_, _)
AppearanceTotal(reg, keys) ==
    IF keys = {} THEN 0
    ELSE LET k == CHOOSE x \in keys : TRUE
         IN  Len(reg[k].slides) + AppearanceTotal(reg, keys \ {k})

\* the registry reg agrees with the references recorded per slide
RegistryMatches(reg, keys) ==
    /\ \A k \in DOMAIN reg :
          LET s == reg[k].slides IN
          /\ s # <<>>
          /\ NonDecreasing(s)
          /\ reg[k].first_slide = s[1]
          /\ \A p \in 1..Len(s) : reg[k].first_slide <= s[p]
          /\ \A i \in DOMAIN keys :
                Cardinality(EntriesFor(s, i)) =
                    Cardinality({j \in 1..Len(keys[i]) : keys[i][j] = k})
          /\ \A p \in 1..Len(s) : s[p] \in DOMAIN keys
    /\ AppearanceTotal(reg, DOMAIN reg) =
           SeqSum([i \in DOMAIN keys |-> Len(keys[i])])

\* a step keeps every asset record, its first_slide, and the appearances it
\* already has
RegistryGrows(reg, next) ==
    \A k \in DOMAIN reg :
        /\ k \in DOMAIN next
        /\ next[k].first_slide = reg[k].first_slide
        /\ Len(next[k].slides) >= Len(reg[k].slides)
        /\ SubSeq(next[k].slides, 1, Len(reg[k].slides)) = reg[k].slides

\* C27: in analyze_pptx_media and in analyze_optimization_opportunities,
\* every asset of the registry has a non-empty appearance list that is
\* non-decreasing in slide index and has one entry per recorded shape
\* reference (repeats from one slide included); first_slide is its first
\* entry and the minimum of its appearances and never changes once the
\* record exists; the appearance entries of all assets together are as many
\* as the references recorded over all slides.
C27_RegistryAppearancesMatchReferences ==
    /\ [](/\ RegistryMatches(media_registry, MediaKeys)
          /\ RegistryMatches(opt_registry, OptKeys))
    /\ [][/\ RegistryGrows(media_registry, media_registry')
          /\ RegistryGrows(opt_registry, opt_registry')]_vars

\* a picture used twice on slide 2 and once on slide 3, slide 1 without
\* media: three appearances, the first on slide 2
C27_Witness ==
    /\ pc = "done"
    /\ Len(deck) = 3
    /\ Hash("imgA") \in DOMAIN media_registry
    /\ media_registry[Hash("imgA")].slides = <<2, 2, 3>>
    /\ media_registry[Hash("imgA")].first_slide = 2
    /\ Len(MapGet(slide_media_map, 2)) = 2

----------------------------------------------------------------------------
(* Claims about a second run on the cleaned copy *)

\* the documents whose cleaned copy is stored at p
SourcesOf(p) == {q \in AllPaths : fs[q].kind = "pptx" /\ OutputPath(q) = p}

\* C30: deleting unused layouts is idempotent with respect to the audit.
\* On the document delete_unused_layouts saved, analyze_slide_masters
\* reports unused_layouts = 0 and unused_layout_media_bytes = 0, every slide
\* resolves to the same layout as in the source document, and a second
\* delete_unused_layouts deletes 0 layouts and frees 0 bytes.
C30_SecondRunFindsNothingUnused ==
    \A src \in SourcesOf(path) :
        /\ fs[path].kind = "pptx"
        /\ Len(fs[path].slides) = Len(fs[src].slides)
        /\ \A i \in 1..Len(fs[src].slides) :
              /\ fs[path].slides[i].layout \in LayoutIds(fs[path])
              /\ SlideLayout(fs[path], i) = SlideLayout(fs[src], i)
        /\ Returned("masters") =>
              /\ masters_report.unused_layouts = 0
              /\ masters_report.unused_layout_media_bytes = 0
              /\ masters_report.total_layouts = LayoutCount(fs[path])
        /\ Returned("delete") =>
              /\ delete_result.layouts_deleted = 0
              /\ delete_result.bytes_saved = 0
              /\ LayoutIds(fs[delete_result.output_path]) = LayoutIds(fs[path])

\* the first run removed two of three layouts, one of them with pictures;
\* the second clean-up of the copy returns with nothing deleted
C30_Witness ==
    /\ Returned("delete")
    /\ delete_result.layouts_deleted = 0
    /\ delete_result.bytes_saved = 0
    /\ \E src \in SourcesOf(path) :
          /\ LayoutCount(fs[src]) = 3
          /\ LayoutCount(fs[path]) = 1
          /\ StripUnused(fs[src]).bytes_saved > 0
          /\ Len(fs[path].slides) = 2

----------------------------------------------------------------------------
(* Claims about format_bytes *)

\* the unit of a count: the first of B, KB, MB whose value is below 1024,
\* and GB from 1024^3 upward
UnitOf(count) ==
    IF count.gib > 0 THEN 4
    ELSE IF count.rest < Kibi THEN 1
    ELSE IF count.rest < Kibi * Kibi THEN 2
    ELSE 3

\* text is the count over divisor to one decimal, followed by the unit:
\* some number of tenths t is written as "<t div 10>.<t mod 10>" and no
\* other tenth is nearer
IsOneDecimalOf(text, count, divisor, unit) ==
    LET whole == count.gib * (Gibi \div divisor) + (count.rest \div divisor)
        frac == TimesTen(count.rest % divisor, divisor)
        below == whole * 10 + frac[1]
    IN  \E t \in {below, below + 1} :
          /\ text = ToString(t \div 10) \o "." \o ToString(t % 10) \o " " \o unit
          /\ t = below => frac[2] <= divisor - frac[2]
          /\ t = below + 1 => frac[2] >= divisor - frac[2]

DivisorOf(unit) == IF unit = 2 THEN Kibi ELSE IF unit = 3 THEN Kibi * Kibi ELSE Gibi

\* C24: format_bytes gives "0.0 MB" for 0, "<n> B" without a decimal for
\* 1 <= n < 1024, and otherwise the count divided by 1024 as often as
\* needed, with exactly one decimal, in the first of KB, MB, GB whose
\* value is below 1024, GB taking everything from 1024^3 upward; and
\* 500 -> "500 B", 1024 -> "1.0 KB", 1048576 -> "1.0 MB",
\* 1572864 -> "1.5 MB", 1073741824 -> "1.0 GB".
C24_FormatBytesUnitsAndDecimal ==
    fmt_pc = "returned" =>
      /\ (num_bytes.gib = 0 /\ num_bytes.rest = 0) => formatted = "0.0 MB"
      /\ (num_bytes.gib = 0 /\ num_bytes.rest >= 1 /\ num_bytes.rest < Kibi)
           => formatted = ToString(num_bytes.rest) \o " B"
      /\ (num_bytes.gib > 0 \/ num_bytes.rest >= Kibi) =>
           IsOneDecimalOf(formatted, num_bytes, DivisorOf(UnitOf(num_bytes)),
                          <<"B", "KB", "MB", "GB">>[UnitOf(num_bytes)])
      /\ num_bytes = ByteCount(500) => formatted = "500 B"
      /\ num_bytes = ByteCount(1024) => formatted = "1.0 KB"
      /\ num_bytes = ByteCount(1048576) => formatted = "1.0 MB"
      /\ num_bytes = ByteCount(1572864) => formatted = "1.5 MB"
      /\ num_bytes = ByteCount(1073741824) => formatted = "1.0 GB"

C24_Witness ==
    /\ fmt_pc = "returned"
    /\ num_bytes = ByteCount(1572864)
    /\ formatted = "1.5 MB"

----------------------------------------------------------------------------
(* Claims about main and print_console_output *)

Blocks(stream, block) == {k \in 1..Len(out) : out[k].stream = stream /\ out[k].block = block}

Printed(block) == Blocks("stdout", block) # {}

Written(kind) == Blocks("file", kind) # {}

InputErrors ==
    {"FileNotFoundError: file not found",
     "ValueError: unsupported file type (expected .pptx)",
     "ValueError: failed to open .pptx"}

WriteFailure == "IOError: failed to write output file"

\* the mode chosen from the flags has done all its work
ModeCompleted ==
    CASE SelectedMode(argv) = "standard" ->
           /\ Printed("listing")
           /\ argv.output_json # "" => Written("json")
           /\ argv.output_csv # "" => Written("csv")
      [] SelectedMode(argv) = "masters" -> Printed("masters")
      [] SelectedMode(argv) = "optimization" -> Printed("optimization")
      [] SelectedMode(argv) = "delete" ->
           Printed("masters") /\ (Printed("cleanup") \/ Printed("nothing"))

\* C22: in every mode main returns 0 exactly if the selected mode
\* completed without error and 1 for any error (file not found, wrong
\* type, corrupt file, failed write, unexpected exception), whose message
\* is then the last thing written and goes to the error stream; nothing is
\* written there on success, and every exception an engine or writer
\* raises is caught by main, none propagates.
C22_ExitCodeTellsSuccess ==
    /\ main_pc # "exit" => exit_code = -1
    /\ (main_pc # "exit" /\ raised # "none") => ENABLED MainReportsError
    /\ main_pc = "exit" =>
         /\ exit_code \in {0, 1}
         /\ exit_code = 0 <=> (ModeCompleted /\ raised = "none")
         /\ exit_code = 1 <=> raised # "none"
         /\ exit_code = 1 =>
              /\ Blocks("stderr", "error") = {Len(out)}
              /\ out[Len(out)].text \in {"Error: " \o raised,
                                         "Error: unexpected error: " \o raised}
         /\ exit_code = 0 => Blocks("stderr", "error") = {}

C22_Witness ==
    /\ main_pc = "exit"
    /\ exit_code = 1
    /\ raised = "NotImplementedError: shape_type not implemented"
    /\ out = <<Event("stderr", "error",
                     "Error: unexpected error: NotImplementedError: shape_type not implemented",
                     <<>>)>>

\* the place of a block in the order of the standard mode
OutputRank(e) ==
    CASE e.block = "listing" -> 1
      [] e.block = "json" -> 2
      [] e.block = "csv" -> 3
      [] e.block = "error" -> 4

\* C23: in standard mode the outputs come in the order console listing,
\* JSON file (if requested), CSV file (if requested); a failed write comes
\* only after the whole listing, ends the run with exit code 1, and after
\* a failed JSON write the CSV write is never attempted; an input error
\* (not found, unsupported type, corrupt) comes before any listing or file.
C23_StandardOutputOrder ==
    SelectedMode(argv) = "standard" =>
      /\ \A j, k \in 1..Len(out) : j < k => OutputRank(out[j]) < OutputRank(out[k])
      /\ Written("json") => argv.output_json # "" /\ Printed("listing")
      /\ Written("csv") => argv.output_csv # "" /\ Printed("listing")
      /\ main_pc \in {"json", "csv"} => Printed("listing")
      /\ main_pc = "csv" => (argv.output_json # "" => Written("json"))
      /\ raised = WriteFailure =>
           /\ \E k \in Blocks("stdout", "listing") :
                 /\ out[k].text = ToString(Len(results))
                 /\ out[k].rows = PrintConsoleOutput(results, argv.top)
           /\ main_pc \in {"except", "exit"}
           /\ main_pc = "exit" => exit_code = 1
           /\ (argv.output_json # "" /\ ~Written("json")) => ~Written("csv")
      /\ raised \in InputErrors =>
           \A k \in 1..Len(out) : out[k].stream = "stderr"

C23_Witness ==
    /\ SelectedMode(argv) = "standard"
    /\ argv.output_json = "missing/out.json"
    /\ argv.output_csv = "out.csv"
    /\ main_pc = "exit"
    /\ exit_code = 1
    /\ Len(out) = 2
    /\ out[1].block = "listing" /\ Len(out[1].rows) > 0
    /\ out[2].stream = "stderr"

ModeFlagCount(a) ==
    (IF a.delete_unused_layouts THEN 1 ELSE 0) + (IF a.masters_report THEN 1 ELSE 0)
      + (IF a.optimization_report THEN 1 ELSE 0)

\* C25: the flags --optimization-report, --masters-report and
\* --delete-unused-layouts exclude each other: a command line with two or
\* more of them is rejected as an error, no mode is run for it while a
\* supplied flag is ignored.
C25_ModeFlagsAreExclusive ==
    ModeFlagCount(argv) >= 2 =>
      /\ op = "none"
      /\ main_pc = "exit" => exit_code = 1 /\ Blocks("stderr", "error") # {}

\* C26: with top_n = N >= 0 the listing has min(N, number of slides) rows,
\* they are the first entries of the sorted results and carry the ranks
\* 1, 2, ...; with top_n unspecified every slide has its row.
C26_TopShowsFirstN ==
    \A k \in Blocks("stdout", "listing") :
       LET rows == out[k].rows
           shown == IF ~argv.top.given THEN Len(results)
                    ELSE IF argv.top.n < Len(results) THEN argv.top.n ELSE Len(results)
       IN  (~argv.top.given \/ argv.top.n >= 0) =>
             /\ Len(rows) = shown
             /\ \A r \in 1..Len(rows) :
                   /\ rows[r].rank = r
                   /\ rows[r].slide_num = results[r].slide_index

====
